---------------------------- MODULE Spec2Model ----------------------------
(***************************************************************************)
(* A model of the iXBRL extraction core of clearview:                      *)
(*   - the numeric decoders  accounts_parser._parse_value  and             *)
(*     parse_accounts_bulk.parse_value;                                    *)
(*   - the single-document extractor                                       *)
(*     accounts_parser.parse_ixbrl / extract_financials_from_ixbrl;        *)
(*   - the bulk parser  parse_accounts_bulk.parse_ixbrl_fast;              *)
(*   - the /api/company handler of server.py.                              *)
(*                                                                         *)
(* Representation choices.                                                 *)
(*   Text (element text, scale attribute) is a sequence of one-character   *)
(*   strings; "nbsp" stands for the character U+00A0.                      *)
(*   A Python float is modelled as an exact decimal  n / 10^d  kept in     *)
(*   normal form (no trailing zero in the fraction), so that equality of   *)
(*   the records is equality of the numbers; binary rounding is not        *)
(*   modelled.  Python None is the value None below, and an exception      *)
(*   leaving a function is the value Raised.                               *)
(***************************************************************************)
EXTENDS Integers, Sequences, FiniteSets, TLC

VARIABLES
    d_text,      \* decoder input: the element's text
    d_scale,     \* decoder input: the scale attribute's string
    d_sign,      \* decoder input: the sign attribute's string
    d_single,    \* what accounts_parser._parse_value returned for it
    d_bulk,      \* what parse_accounts_bulk.parse_value returned for it
    x_doc,       \* the document handed to extract_financials_from_ixbrl
    x_pc,        \* where the call stands
    x_contexts,  \* parsed["contexts"]
    x_facts,     \* parsed["facts"]
    x_todo,      \* the period keys the  for period_end, ctx_groups  loop has left
    x_record,    \* the record under construction
    x_results,   \* results
    x_by_year,   \* by_year, its records in insertion order
    x_out,       \* the returned list
    x_again,     \* the reducer's output when run on x_out
    b_pc,        \* parse_ixbrl_fast: where the call stands
    b_company,   \* parse_ixbrl_fast: company_number
    b_contexts,  \* parse_ixbrl_fast: contexts
    b_todo,      \* parse_ixbrl_fast: the nonFraction tags the loop has left
    b_by_period, \* parse_ixbrl_fast: by_period, its records in insertion order
    b_out,       \* parse_ixbrl_fast: the returned list
    ch,              \* what Companies House and the fallback service hold
    _company_cache,  \* server._company_cache, as a set of [number, data]
    response,        \* the server's last response
    a_pc,            \* parse_all_accounts: where the run stands
    a_files,         \* parse_all_accounts: all_files
    a_batches,       \* parse_all_accounts: batches
    a_pending,       \* the batches no worker has finished yet
    a_queue,         \* the finished batch results imap_unordered has yet to yield
    a_rows,          \* parse_all_accounts: all_rows
    a_parsed_count,  \* parse_all_accounts: parsed_count
    a_failed_count,  \* parse_all_accounts: failed_count
    a_out,           \* the rows written to output_parquet
    e_content,       \* parse_ixbrl: content, a sequence of bytes
    e_encoding,      \* parse_ixbrl: encoding
    e_out,           \* the decoded text, or how the decoding ended
    l_score,         \* calc_credit_limit: score
    l_financials,    \* calc_credit_limit: financials
    l_insolvency,    \* calc_credit_limit: company_data["insolvency"], if any
    l_out,           \* what calc_credit_limit returned
    r_pc,            \* /api/company in a server thread: where the request stands
    r_number,        \* the request's number, stripped and upper-cased
    r_data,          \* the request's data, once built
    r_response,      \* the thread's last response
    p_new,           \* _pct_change: new
    p_old,           \* _pct_change: old
    p_out,           \* what _pct_change returned
    f_vals,          \* build_financial_features: a company's net_assets column, by year
    f_row            \* the net assets trajectory keys of its row

decVars == <<d_text, d_scale, d_sign, d_single, d_bulk>>
docVars == <<x_doc, x_pc, x_contexts, x_facts, x_todo, x_record, x_results,
             x_by_year, x_out, x_again>>
bulkVars == <<b_pc, b_company, b_contexts, b_todo, b_by_period, b_out>>
srvVars == <<ch, _company_cache, response>>
pipeVars == <<a_pc, a_files, a_batches, a_pending, a_queue, a_rows, a_parsed_count,
              a_failed_count, a_out>>
encVars == <<e_content, e_encoding, e_out>>
limVars == <<l_score, l_financials, l_insolvency, l_out>>
reqVars == <<r_pc, r_number, r_data, r_response>>
trendVars == <<p_new, p_old, p_out, f_vals, f_row>>
vars == <<decVars, docVars, bulkVars, srvVars, pipeVars, encVars, limVars, reqVars,
          trendVars>>

(***************************************************************************)
(* Bounds of the model.                                                    *)
(***************************************************************************)
MaxLen == 3        \* longest element text the decoder specification draws
MaxTags == 3       \* most tagged elements in a document drawn from a pool
MaxThreads == 2    \* most requests the server handles at a time
MaxYears == 4      \* most years of accounts of one company in the dataset
MaxPeriods == 6    \* most period-end dates in a document of the series family

(***************************************************************************)
(* Values.                                                                 *)
(***************************************************************************)
None    == [kind |-> "none",    n |-> 0, d |-> 0]
Raised  == [kind |-> "raise",   n |-> 0, d |-> 0]
Pending == [kind |-> "pending", n |-> 0, d |-> 0]

Abs(i) == IF i < 0 THEN -i ELSE i

RECURSIVE Norm(_, _)
Norm(n, d) ==
    IF d > 0 /\ n % 10 = 0 THEN Norm(n \div 10, d - 1)
    ELSE [kind |-> "num", n |-> n, d |-> d]

Num(n) == Norm(n, 0)

IsNum(v) == v.kind = "num"

\* (a slip: value *= 10 * scale)
Times10_linear(v, s) == Norm(v.n * 10 * s, v.d)

\* v * 10^s for an integer s
Times10(v, s) ==
    IF s >= 0 THEN Norm(v.n * 10^s, v.d) ELSE Norm(v.n, v.d - s)

\* -abs(v)
NegAbs(v) == Norm(-Abs(v.n), v.d)

\* a + b
Plus(a, b) ==
    LET dd == IF a.d > b.d THEN a.d ELSE b.d
    IN  Norm(a.n * 10^(dd - a.d) + b.n * 10^(dd - b.d), dd)

\* Python truthiness of a float-or-None: None and 0.0 are falsy
Truthy(v) == IsNum(v) /\ v.n # 0

(***************************************************************************)
(* Characters and Python's string helpers.                                 *)
(***************************************************************************)
Digits == {"0", "1", "2", "3", "4", "5", "6", "7", "8", "9"}

DigitVal(c) ==
    CASE c = "0" -> 0 [] c = "1" -> 1 [] c = "2" -> 2 [] c = "3" -> 3
      [] c = "4" -> 4 [] c = "5" -> 5 [] c = "6" -> 6 [] c = "7" -> 7
      [] c = "8" -> 8 [] c = "9" -> 9

Chars(s) == {s[i] : i \in 1..Len(s)}

\* s.replace(c, "") for every c in cs; re.sub of a negated class is
\* Remove of the complement
RECURSIVE Remove(_, _)
Remove(s, cs) ==
    IF s = <<>> THEN <<>>
    ELSE IF Head(s) \in cs THEN Remove(Tail(s), cs)
    ELSE <<Head(s)>> \o Remove(Tail(s), cs)

RECURSIVE Keep(_, _)
Keep(s, cs) ==
    IF s = <<>> THEN <<>>
    ELSE IF Head(s) \in cs THEN <<Head(s)>> \o Keep(Tail(s), cs)
    ELSE Keep(Tail(s), cs)

\* the digits of s read as a decimal integer (s holds digits only)
RECURSIVE DigitsVal(_)
DigitsVal(s) ==
    IF s = <<>> THEN 0
    ELSE 10 * DigitsVal(SubSeq(s, 1, Len(s) - 1)) + DigitVal(s[Len(s)])

\* s.strip() for the whitespace of the model
RECURSIVE LStrip(_)
LStrip(s) ==
    IF s # <<>> /\ Head(s) \in {" ", "nbsp"} THEN LStrip(Tail(s)) ELSE s

RECURSIVE RStrip(_)
RStrip(s) ==
    IF s # <<>> /\ s[Len(s)] \in {" ", "nbsp"}
    THEN RStrip(SubSeq(s, 1, Len(s) - 1)) ELSE s

Strip(s) == LStrip(RStrip(s))

(***************************************************************************)
(* float(cleaned), for a string of digits, "." and "-" (all that the       *)
(* decoders' re.sub leaves): an optional leading "-", then digits with at  *)
(* most one "." and at least one digit.  Anything else is a ValueError.    *)
(***************************************************************************)
FloatBody(s) == IF s # <<>> /\ Head(s) = "-" THEN Tail(s) ELSE s

FloatOk(s) ==
    LET b == FloatBody(s)
    IN  /\ Chars(b) \subseteq Digits \cup {"."}
        /\ Cardinality({i \in 1..Len(b) : b[i] = "."}) <= 1
        /\ \E i \in 1..Len(b) : b[i] \in Digits

\* number of characters after the "." (0 when there is none)
FracLen(b) ==
    IF "." \in Chars(b)
    THEN Len(b) - (CHOOSE i \in 1..Len(b) : b[i] = ".")
    ELSE 0

Float(s) ==
    LET b   == FloatBody(s)
        mag == DigitsVal(Remove(b, {"."}))
    IN  Norm(IF s # <<>> /\ Head(s) = "-" THEN -mag ELSE mag, FracLen(b))

(***************************************************************************)
(* int(s): surrounding whitespace, an optional sign, then digits.          *)
(***************************************************************************)
IntBody(s) ==
    LET t == Strip(s)
    IN  IF t # <<>> /\ Head(t) \in {"-", "+"} THEN Tail(t) ELSE t

IntOk(s) ==
    LET b == IntBody(s) IN b # <<>> /\ Chars(b) \subseteq Digits

Int_(s) ==
    LET t == Strip(s)
    IN  IF Head(t) = "-" THEN -DigitsVal(IntBody(s)) ELSE DigitsVal(IntBody(s))

\* value *= 10 ** scale.  10 ** scale is an int for scale >= 0, and a float
\* operand makes Python convert it: beyond the float range that conversion
\* raises OverflowError, which neither decoder catches.
FloatMaxExp10 == 308

(***************************************************************************)
(* accounts_parser._parse_value                                            *)
(***************************************************************************)
\* (a slip: the two indicators negate instead of forcing the sign)
ApplySign_negate(value, sign, has_brackets) ==
    IF sign = "-" \/ has_brackets THEN Norm(-value.n, value.d) ELSE value

ApplySign(value, sign, has_brackets) ==
    IF sign = "-" \/ has_brackets THEN NegAbs(value) ELSE value

_parse_value(text, scale_str, sign) ==
    LET cleaned0     == Remove(text, {",", " ", "nbsp"})
        cleaned1     == Remove(cleaned0, {"(", ")"})
        has_brackets == "(" \in Chars(text) /\ ")" \in Chars(text)
        cleaned      == Keep(cleaned1, Digits \cup {".", "-"})
    IN  IF cleaned = <<>> \/ cleaned = <<"-">> \/ cleaned = <<".">> THEN None
        ELSE IF ~FloatOk(cleaned) THEN None
        ELSE LET value == Float(cleaned)
             IN  IF scale_str # <<>> /\ ~IntOk(scale_str)
                 THEN ApplySign(value, sign, has_brackets)
                 ELSE LET scale == IF scale_str # <<>> THEN Int_(scale_str) ELSE 0
                      IN  IF scale > FloatMaxExp10 THEN Raised
                          ELSE ApplySign(Times10(value, scale), sign, has_brackets)

(***************************************************************************)
(* parse_accounts_bulk.parse_value                                         *)
(***************************************************************************)
\* (a slip: the brackets are not taken as a sign)
BulkApplySign_marker(val, sign, has_brackets) ==
    IF sign = "-" THEN NegAbs(val) ELSE val

BulkApplySign(val, sign, has_brackets) ==
    IF sign = "-" \/ has_brackets THEN NegAbs(val) ELSE val

parse_value(text, scale_str, sign) ==
    LET cleaned0     == Remove(text, {",", " ", "nbsp"})
        has_brackets == "(" \in Chars(text) /\ ")" \in Chars(text)
        cleaned      == Keep(cleaned0, Digits \cup {".", "-"})
    IN  IF cleaned = <<>> \/ cleaned \in {<<".">>, <<"-">>} THEN None
        ELSE IF ~FloatOk(cleaned) THEN None
        ELSE LET val == Float(cleaned)
             IN  IF ~IntOk(scale_str)
                 THEN BulkApplySign(val, sign, has_brackets)
                 ELSE LET scale == Int_(scale_str)
                      IN  IF scale > FloatMaxExp10 THEN Raised
                          ELSE BulkApplySign(
                                 IF scale # 0 THEN Times10(val, scale) ELSE val,
                                 sign, has_brackets)

(***************************************************************************)
(* Concept names.  A tag name is a sequence of words ("uk-core", ":",      *)
(* "Total", "Assets"): str.lower() maps each word to its lower-case form   *)
(* and the words of a name are then joined into one string, so that        *)
(* equality is equality of the lower-cased names; endswith is decided at   *)
(* word boundaries.                                                        *)
(***************************************************************************)
LowerWord(w) ==
    CASE w = ":" -> ":"
      [] w = "ASSETS" -> "assets"
      [] w = "Account" -> "account"
      [] w = "Accumulated" -> "accumulated"
      [] w = "Activities" -> "activities"
      [] w = "After" -> "after"
      [] w = "Amounts" -> "amounts"
      [] w = "And" -> "and"
      [] w = "Asset" -> "asset"
      [] w = "Assets" -> "assets"
      [] w = "At" -> "at"
      [] w = "Attributable" -> "attributable"
      [] w = "Average" -> "average"
      [] w = "Bank" -> "bank"
      [] w = "Before" -> "before"
      [] w = "Called" -> "called"
      [] w = "Capital" -> "capital"
      [] w = "Companies" -> "companies"
      [] w = "Company" -> "company"
      [] w = "Cash" -> "cash"
      [] w = "Charges" -> "charges"
      [] w = "Contracts" -> "contracts"
      [] w = "Cost" -> "cost"
      [] w = "Creditor" -> "creditor"
      [] w = "Creditors" -> "creditors"
      [] w = "Current" -> "current"
      [] w = "Customers" -> "customers"
      [] w = "Due" -> "due"
      [] w = "During" -> "during"
      [] w = "Earnings" -> "earnings"
      [] w = "Employees" -> "employees"
      [] w = "Entity" -> "entity"
      [] w = "Equivalents" -> "equivalents"
      [] w = "Falling" -> "falling"
      [] w = "Financial" -> "financial"
      [] w = "Fixed" -> "fixed"
      [] w = "Foo" -> "foo"
      [] w = "For" -> "for"
      [] w = "From" -> "from"
      [] w = "Gross" -> "gross"
      [] w = "Hand" -> "hand"
      [] w = "House" -> "house"
      [] w = "In" -> "in"
      [] w = "Including" -> "including"
      [] w = "Income" -> "income"
      [] w = "Intangible" -> "intangible"
      [] w = "Interest" -> "interest"
      [] w = "Less" -> "less"
      [] w = "Liabilities" -> "liabilities"
      [] w = "Liability" -> "liability"
      [] w = "Loss" -> "loss"
      [] w = "Losses" -> "losses"
      [] w = "More" -> "more"
      [] w = "Net" -> "net"
      [] w = "Non" -> "non"
      [] w = "Not" -> "not"
      [] w = "Number" -> "number"
      [] w = "Of" -> "of"
      [] w = "On" -> "on"
      [] w = "One" -> "one"
      [] w = "Operating" -> "operating"
      [] w = "Ordinary" -> "ordinary"
      [] w = "Other" -> "other"
      [] w = "Owners" -> "owners"
      [] w = "Paid" -> "paid"
      [] w = "Parent" -> "parent"
      [] w = "Payable" -> "payable"
      [] w = "Pension" -> "pension"
      [] w = "Period" -> "period"
      [] w = "Profit" -> "profit"
      [] w = "Registered" -> "registered"
      [] w = "Reserve" -> "reserve"
      [] w = "Retained" -> "retained"
      [] w = "Revenue" -> "revenue"
      [] w = "Sales" -> "sales"
      [] w = "Share" -> "share"
      [] w = "Similar" -> "similar"
      [] w = "TOTAL" -> "total"
      [] w = "Tangible" -> "tangible"
      [] w = "Tax" -> "tax"
      [] w = "Than" -> "than"
      [] w = "To" -> "to"
      [] w = "Total" -> "total"
      [] w = "Turnover" -> "turnover"
      [] w = "UK" -> "uk"
      [] w = "Up" -> "up"
      [] w = "With" -> "with"
      [] w = "Within" -> "within"
      [] w = "Year" -> "year"
      [] w = "company" -> "company"
      [] w = "core" -> "core"
      [] w = "identifier" -> "identifier"
      [] w = "number" -> "number"
      [] w = "turnover" -> "turnover"
      [] w = "uk" -> "uk"

RECURSIVE LowerStr(_)
LowerStr(ws) ==
    IF ws = <<>> THEN "" ELSE LowerWord(Head(ws)) \o LowerStr(Tail(ws))

\* name.split(":")[-1] if ":" in name else name
LocalName(name) ==
    IF ":" \in Chars(name)
    THEN LET last == CHOOSE i \in 1..Len(name) :
                        name[i] = ":" /\ \A j \in (i+1)..Len(name) : name[j] # ":"
         IN  SubSeq(name, last + 1, Len(name))
    ELSE name

\* the word-aligned tails of the name, lower-cased
LowerTails(local_name) ==
    {LowerStr(SubSeq(local_name, i, Len(local_name))) : i \in 1..Len(local_name)}

\* ln.endswith(t), for a lower-cased target t: some word-aligned tail of the
\* name reads t once lower-cased
EndsWith(local_name, t) == t \in LowerTails(local_name)

(***************************************************************************)
(* accounts_parser.CONCEPT_MAP and _match_concept                          *)
(***************************************************************************)
CONCEPT_MAP(f) ==
    CASE f = "turnover" ->
        << <<"Turnover">>,
           <<"Turnover", "Revenue">>,
           <<"Revenue">>,
           <<"Turnover", "Gross", "Income">>,
           <<"Revenue", "From", "Contracts", "With", "Customers">> >>
      [] f = "cost_of_sales" ->
        << <<"Cost", "Sales">>,
           <<"Cost", "Of", "Sales">> >>
      [] f = "gross_profit" ->
        << <<"Gross", "Profit", "Loss">>,
           <<"Gross", "Profit">> >>
      [] f = "ebit" ->
        << <<"Operating", "Profit", "Loss">>,
           <<"Operating", "Profit">>,
           <<"Profit", "Loss", "On", "Ordinary", "Activities", "Before", "Interest", "And", "Tax">>,
           <<"Profit", "Loss", "Before", "Interest", "Payable", "Similar", "Charges">>,
           <<"Profit", "Loss", "Before", "Tax">> >>
      [] f = "net_profit" ->
        << <<"Profit", "Loss", "For", "Period">>,
           <<"Profit", "Loss", "For", "Year">>,
           <<"Profit", "Loss", "For", "Financial", "Year">>,
           <<"Retained", "Profit", "Loss", "For", "Financial", "Year">>,
           <<"Profit", "Loss">>,
           <<"Profit", "Loss", "Attributable", "To", "Owners", "Of", "Parent">> >>
      [] f = "total_assets" ->
        << <<"Total", "Assets">>,
           <<"Total", "Assets", "Less", "Current", "Liabilities">> >>
      [] f = "fixed_assets" ->
        << <<"Fixed", "Assets">>,
           <<"Non", "Current", "Assets">>,
           <<"Tangible", "Fixed", "Assets">>,
           <<"Intangible", "Fixed", "Assets">> >>
      [] f = "current_assets" ->
        << <<"Current", "Assets">>,
           <<"Total", "Current", "Assets">> >>
      [] f = "total_liabilities" ->
        << <<"Total", "Liabilities">> >>
      [] f = "current_liabilities" ->
        << <<"Creditors", "Due", "Within", "One", "Year">>,
           <<"Current", "Liabilities">>,
           <<"Creditor", "Amounts", "Falling", "Due", "Within", "One", "Year">> >>
      [] f = "non_current_liabilities" ->
        << <<"Creditors", "Due", "After", "One", "Year">>,
           <<"Non", "Current", "Liabilities">>,
           <<"Creditors", "Amounts", "Falling", "Due", "After", "More", "Than", "One", "Year">>,
           <<"Creditor", "Amounts", "Falling", "Due", "After", "One", "Year">> >>
      [] f = "net_assets" ->
        << <<"Net", "Assets", "Liabilities">>,
           <<"Net", "Assets">>,
           <<"Total", "Net", "Assets">>,
           <<"Net", "Assets", "Including", "Pension", "Asset", "Liability">> >>
      [] f = "cash" ->
        << <<"Cash", "Bank", "In", "Hand">>,
           <<"Cash", "Cash", "Equivalents">>,
           <<"Cash", "At", "Bank", "In", "Hand">>,
           <<"Cash", "Bank", "On", "Hand">> >>
      [] f = "retained_earnings" ->
        << <<"Retained", "Earnings", "Accumulated", "Losses">>,
           <<"Profit", "Loss", "Account", "Reserve">>,
           <<"Retained", "Earnings">> >>
      [] f = "employees" ->
        << <<"Average", "Number", "Employees", "During", "Period">>,
           <<"Entity", "Average", "Number", "Of", "Employees">>,
           <<"Average", "Number", "Of", "Employees">>,
           <<"Employees", "Total">> >>
      [] f = "creditors_due_within_year" ->
        << <<"Creditors", "Due", "Within", "One", "Year">>,
           <<"Creditor", "Amounts", "Falling", "Due", "Within", "One", "Year">>,
           <<"Current", "Liabilities">> >>
      [] f = "share_capital" ->
        << <<"Called", "Up", "Share", "Capital">>,
           <<"Share", "Capital">>,
           <<"Called", "Up", "Share", "Capital", "Not", "Paid">> >>
FieldNames ==
    {"turnover", "cost_of_sales", "gross_profit", "ebit", "net_profit",
     "total_assets", "fixed_assets", "current_assets", "total_liabilities",
     "current_liabilities", "non_current_liabilities", "net_assets", "cash",
     "retained_earnings", "employees", "creditors_due_within_year",
     "share_capital"}

\* t.lower() for every t of CONCEPT_MAP.get(field, [])
LowerTargets ==
    [f \in FieldNames |->
        {LowerStr(CONCEPT_MAP(f)[k]) : k \in 1..Len(CONCEPT_MAP(f))}]

_match_concept(local_name, field) ==
    LET ln    == LowerStr(local_name)
        tails == LowerTails(local_name)
    IN  \E t \in LowerTargets[field] : ln = t \/ t \in tails

(***************************************************************************)
(* parse_accounts_bulk.CONCEPT_MAP and _CONCEPT_LOOKUP                     *)
(***************************************************************************)
BULK_CONCEPT_MAP == <<
    << "net_assets",
        << <<"Net", "Assets", "Liabilities">>,
           <<"Net", "Assets">>,
           <<"Total", "Net", "Assets">>,
           <<"Net", "Assets", "Including", "Pension", "Asset", "Liability">> >> >>,
    << "total_assets",
        << <<"Total", "Assets">> >> >>,
    << "current_assets",
        << <<"Current", "Assets">>,
           <<"Total", "Current", "Assets">> >> >>,
    << "fixed_assets",
        << <<"Fixed", "Assets">>,
           <<"Non", "Current", "Assets">> >> >>,
    << "current_liabilities",
        << <<"Creditors", "Due", "Within", "One", "Year">>,
           <<"Current", "Liabilities">>,
           <<"Creditor", "Amounts", "Falling", "Due", "Within", "One", "Year">>,
           <<"Creditor", "Amounts", "Falling", "Due", "Within", "One", "Year">> >> >>,
    << "non_current_liabilities",
        << <<"Creditors", "Due", "After", "One", "Year">>,
           <<"Non", "Current", "Liabilities">>,
           <<"Creditors", "Amounts", "Falling", "Due", "After", "More", "Than", "One", "Year">>,
           <<"Creditor", "Amounts", "Falling", "Due", "After", "One", "Year">> >> >>,
    << "cash",
        << <<"Cash", "Bank", "In", "Hand">>,
           <<"Cash", "Cash", "Equivalents">>,
           <<"Cash", "At", "Bank", "In", "Hand">>,
           <<"Cash", "Bank", "On", "Hand">> >> >>,
    << "retained_earnings",
        << <<"Retained", "Earnings", "Accumulated", "Losses">>,
           <<"Profit", "Loss", "Account", "Reserve">>,
           <<"Retained", "Earnings">> >> >>,
    << "share_capital",
        << <<"Called", "Up", "Share", "Capital">>,
           <<"Share", "Capital">> >> >>,
    << "employees",
        << <<"Average", "Number", "Employees", "During", "Period">>,
           <<"Entity", "Average", "Number", "Of", "Employees">>,
           <<"Average", "Number", "Of", "Employees">> >> >>,
    << "turnover",
        << <<"Turnover">>,
           <<"Turnover", "Revenue">>,
           <<"Revenue">>,
           <<"Turnover", "Gross", "Income">> >> >>,
    << "net_profit",
        << <<"Profit", "Loss", "For", "Period">>,
           <<"Profit", "Loss", "For", "Year">>,
           <<"Profit", "Loss", "For", "Financial", "Year">>,
           <<"Profit", "Loss">> >> >>,
    << "total_liabilities",
        << <<"Total", "Liabilities">> >> >>
    >>
\* _CONCEPT_LOOKUP.get(key): the dict is filled field by field, suffix by
\* suffix, a later entry for the same key replacing an earlier one
\* the (field, suffix) places of the table, and the key each one writes
LookupPlaces ==
    UNION {{<<i, k>> : k \in 1..Len(BULK_CONCEPT_MAP[i][2])} :
                i \in 1..Len(BULK_CONCEPT_MAP)}

LookupKey == [h \in LookupPlaces |-> LowerStr(BULK_CONCEPT_MAP[h[1]][2][h[2]])]

_CONCEPT_LOOKUP(key) ==
    LET hits == {h \in LookupPlaces : LookupKey[h] = key}
    IN  IF hits = {} THEN ""
        ELSE LET last == CHOOSE h \in hits :
                            \A g \in hits : g[1] < h[1] \/ (g[1] = h[1] /\ g[2] <= h[2])
             IN  BULK_CONCEPT_MAP[last[1]][1]

(***************************************************************************)
(* Documents.  A document is what the markup parser hands to the code: its *)
(* context blocks and its tagged elements, in document order.              *)
(*   context block: [id, period, start, end, instant, segment]             *)
(*     id       the id attribute ("" when absent)                          *)
(*     period   whether the block has a period sub-block                   *)
(*     start, end, instant   the marker's text, or Missing                 *)
(*     segment  "none", "plain" (a segment without members) or "member"    *)
(*   tagged element: [kind, name, ctx, text, scale, sign]                  *)
(*     kind     "nonFraction" or "nonNumeric"                              *)
(*     name     the name attribute, a sequence of words (<<>> when absent) *)
(*     ctx      the contextRef attribute                                   *)
(*     text     the element's text;  scale  the scale attribute or Missing *)
(***************************************************************************)
Missing == <<"<missing>">>

\* no file, and the document of an empty body
NoFile == [path |-> <<>>, head |-> <<>>, length |-> 0]

NoDoc == [ctxs |-> <<>>, tags |-> <<>>, file |-> NoFile]

\* code points of the characters that occur in dates
Ord(c) ==
    CASE c \in Digits -> 48 + DigitVal(c)
      [] c = " " -> 32 [] c = "-" -> 45 [] c = "/" -> 47
      [] c = ":" -> 58 [] c = "T" -> 84 [] c = "x" -> 120

\* a < b for Python strings
RECURSIVE StrLess(_, _)
StrLess(a, b) ==
    IF b = <<>> THEN FALSE
    ELSE IF a = <<>> THEN TRUE
    ELSE IF Ord(Head(a)) # Ord(Head(b)) THEN Ord(Head(a)) < Ord(Head(b))
    ELSE StrLess(Tail(a), Tail(b))

\* s[:k]
Prefix(s, k) == SubSeq(s, 1, IF Len(s) < k THEN Len(s) ELSE k)

(***************************************************************************)
(* accounts_parser.parse_ixbrl: contexts                                   *)
(***************************************************************************)
\* the info dict of one context block; a key the code does not set is Missing
ContextInfo(ctx) ==
    [start    |-> IF ctx.start # Missing /\ ctx.end # Missing
                  THEN Strip(ctx.start) ELSE Missing,
     end      |-> IF ctx.start # Missing /\ ctx.end # Missing
                  THEN Strip(ctx.end) ELSE Missing,
     instant  |-> IF ~(ctx.start # Missing /\ ctx.end # Missing)
                     /\ ctx.instant # Missing
                  THEN Strip(ctx.instant) ELSE Missing,
     has_dimension |-> ctx.segment # "none"]

\* the blocks that reach  contexts[ctx_id] = info
StoredBlocks(blocks) ==
    {i \in 1..Len(blocks) : blocks[i].id # <<>> /\ blocks[i].period}

\* contexts: id -> info, a later block with the same id replacing an earlier
ParseContexts(blocks) ==
    LET ids == {blocks[i].id : i \in StoredBlocks(blocks)}
    IN  [id \in ids |->
            LET last == CHOOSE i \in StoredBlocks(blocks) :
                            /\ blocks[i].id = id
                            /\ \A j \in StoredBlocks(blocks) :
                                   blocks[j].id = id => j <= i
            IN  ContextInfo(blocks[last])]

(***************************************************************************)
(* accounts_parser.parse_ixbrl: facts                                      *)
(***************************************************************************)
ScaleAttr(tag) == IF tag.scale = Missing THEN <<"0">> ELSE tag.scale

\* the tags that pass  "if not text or not name: continue"
HasTextAndName(tag) == Strip(tag.text) # <<>> /\ tag.name # <<>>

TagValue(tag) == _parse_value(Strip(tag.text), ScaleAttr(tag), tag.sign)

RECURSIVE ParseFacts(_)
ParseFacts(tags) ==
    IF tags = <<>> THEN <<>>
    ELSE LET tag == Head(tags)
         IN  IF HasTextAndName(tag) /\ TagValue(tag) # None
             THEN <<[concept     |-> LocalName(tag.name),
                     context_ref |-> tag.ctx,
                     value       |-> TagValue(tag)]>> \o ParseFacts(Tail(tags))
             ELSE ParseFacts(Tail(tags))

\* _parse_value raising inside the loop ends parse_ixbrl with the exception
ParseRaises(tags) ==
    \E i \in 1..Len(tags) : HasTextAndName(tags[i]) /\ TagValue(tags[i]) = Raised

(***************************************************************************)
(* extract_financials_from_ixbrl: period groups                            *)
(***************************************************************************)
\* (a slip: dimensioned contexts are grouped like any other)
Undimensioned_all(contexts) == DOMAIN contexts

Undimensioned(contexts) == {id \in DOMAIN contexts : ~contexts[id].has_dimension}

DurationCtx(contexts, key) ==
    {id \in Undimensioned(contexts) : contexts[id].end # Missing /\ contexts[id].end = key}

\* (a slip: instant contexts are left out of the period groups)
InstantCtx_none(contexts, key) == {}

InstantCtx(contexts, key) ==
    {id \in Undimensioned(contexts) :
        /\ contexts[id].end = Missing
        /\ contexts[id].instant # Missing /\ contexts[id].instant = key}

PeriodKeys(contexts) ==
    {contexts[id].end : id \in {i \in Undimensioned(contexts) : contexts[i].end # Missing}}
    \cup {contexts[id].instant : id \in {i \in Undimensioned(contexts) :
                contexts[i].end = Missing /\ contexts[i].instant # Missing}}

\* sorted(keys, reverse=True) as a sequence
RECURSIVE SortedDesc(_)
SortedDesc(keys) ==
    IF keys = {} THEN <<>>
    ELSE LET top == CHOOSE k \in keys : \A o \in keys : o = k \/ StrLess(o, k)
         IN  <<top>> \o SortedDesc(keys \ {top})

(***************************************************************************)
(* extract_financials_from_ixbrl: one period's record                      *)
(***************************************************************************)
fields_to_extract ==
    << "turnover", "cost_of_sales", "gross_profit", "ebit", "net_profit",
       "total_assets", "current_assets", "fixed_assets",
       "total_liabilities", "current_liabilities", "non_current_liabilities",
       "net_assets", "cash", "retained_earnings", "employees",
       "creditors_due_within_year", "share_capital" >>

FieldSet == {fields_to_extract[i] : i \in 1..Len(fields_to_extract)}

\* (a slip: current liabilities taken for a figure of the period)
DurationFields_liabilities ==
    {"turnover", "cost_of_sales", "gross_profit", "ebit", "net_profit", "employees",
     "current_liabilities"}

DurationFields ==
    {"turnover", "cost_of_sales", "gross_profit", "ebit", "net_profit", "employees"}

\* for fact in facts: if ... : value = fact["value"]; break
RECURSIVE FirstMatch(_, _, _)
FirstMatch(facts, ctx_set, field) ==
    IF facts = <<>> THEN None
    ELSE IF Head(facts).context_ref \in ctx_set
            /\ _match_concept(Head(facts).concept, field)
         THEN Head(facts).value
         ELSE FirstMatch(Tail(facts), ctx_set, field)

\* (a slip: no preference, every context of the period is searched at once)
RelevantCtx_any(contexts, key, field) ==
    DurationCtx(contexts, key) \cup InstantCtx(contexts, key)

RelevantCtx(contexts, key, field) ==
    IF field \in DurationFields THEN DurationCtx(contexts, key)
    ELSE InstantCtx(contexts, key)

\* for ctx_set in [relevant_ctx, list(all_ctx_ids)]: ...
SelectValue(contexts, facts, key, field) ==
    LET all_ctx_ids == DurationCtx(contexts, key) \cup InstantCtx(contexts, key)
        first       == FirstMatch(facts, RelevantCtx(contexts, key, field), field)
    IN  IF first # None THEN first ELSE FirstMatch(facts, all_ctx_ids, field)

\* the record after the  for field in fields_to_extract  loop
SelectFields(contexts, facts, key) ==
    [period_end |-> key,
     year       |-> Prefix(key, 4),
     v          |-> [f \in FieldSet |-> SelectValue(contexts, facts, key, f)]]

\* x or 0
OrZero(x) == IF Truthy(x) THEN x ELSE Num(0)

\* if record[target] is None: x = record.get(a) or 0; y = record.get(b) or 0
\*     if x or y: record[target] = x + y
DeriveSum(record, target, a, b) ==
    IF record.v[target] = None
    THEN LET x == OrZero(record.v[a])
             y == OrZero(record.v[b])
         IN  IF Truthy(x) \/ Truthy(y)
             THEN [record EXCEPT !.v[target] = Plus(x, y)]
             ELSE record
    ELSE record

DeriveLiabilities(record) ==
    DeriveSum(record, "total_liabilities", "current_liabilities", "non_current_liabilities")

\* (a slip: total assets are not derived from their parts)
DeriveAssets_never(record) == record

DeriveAssets(record) ==
    DeriveSum(record, "total_assets", "fixed_assets", "current_assets")

AliasCreditors(record) ==
    IF record.v["creditors_due_within_year"] = None
    THEN [record EXCEPT !.v["creditors_due_within_year"] = record.v["current_liabilities"]]
    ELSE record

GatekeeperFields == {"total_assets", "net_assets", "current_assets", "turnover"}

\* (a slip: any populated field keeps the record)
has_data_any(record) == \E k \in FieldSet : record.v[k] # None

has_data(record) == \E k \in GatekeeperFields : record.v[k] # None

\* the record of one period, as appended to results (when has_data)
BuildRecord(contexts, facts, key) ==
    AliasCreditors(DeriveAssets(DeriveLiabilities(SelectFields(contexts, facts, key))))

(***************************************************************************)
(* extract_financials_from_ixbrl: deduplicate by year, sort, keep 4        *)
(***************************************************************************)
\* sum(1 for v in r.values() if v is not None): period_end and year are
\* strings, never None
NonNullCount(r) == 2 + Cardinality({f \in FieldSet : r.v[f] # None})

YearIndex(by_year, yr) ==
    IF \E i \in 1..Len(by_year) : by_year[i].year = yr
    THEN CHOOSE i \in 1..Len(by_year) : by_year[i].year = yr
    ELSE 0

\* (a slip: >= lets a later record of equal count replace the first)
DedupeStep_ge(by_year, r) ==
    LET i == YearIndex(by_year, r.year)
    IN  IF i = 0 THEN Append(by_year, r)
        ELSE IF NonNullCount(r) >= NonNullCount(by_year[i])
             THEN [by_year EXCEPT ![i] = r]
             ELSE by_year

\* one iteration of  for r in results  (by_year in insertion order)
DedupeStep(by_year, r) ==
    LET i == YearIndex(by_year, r.year)
    IN  IF i = 0 THEN Append(by_year, r)
        ELSE IF NonNullCount(r) > NonNullCount(by_year[i])
             THEN [by_year EXCEPT ![i] = r]
             ELSE by_year

RECURSIVE DedupeFrom(_, _)
DedupeFrom(by_year, results) ==
    IF results = <<>> THEN by_year
    ELSE DedupeFrom(DedupeStep(by_year, Head(results)), Tail(results))

DedupeByYear(results) == DedupeFrom(<<>>, results)

\* (a slip: reverse=True left out)
RECURSIVE SortByYear_asc(_)
SortByYear_asc(rs) ==
    IF rs = <<>> THEN <<>>
    ELSE LET low == CHOOSE i \in 1..Len(rs) :
                        /\ \A j \in 1..Len(rs) : ~StrLess(rs[j].year, rs[i].year)
                        /\ \A j \in 1..(i-1) : StrLess(rs[i].year, rs[j].year)
         IN  <<rs[low]>> \o
             SortByYear_asc(SubSeq(rs, 1, low - 1) \o SubSeq(rs, low + 1, Len(rs)))

\* sorted(rs, key=lambda x: x["year"], reverse=True): stable, so records of
\* equal year keep their order
RECURSIVE SortByYearDesc(_)
SortByYearDesc(rs) ==
    IF rs = <<>> THEN <<>>
    ELSE LET top == CHOOSE i \in 1..Len(rs) :
                        /\ \A j \in 1..Len(rs) : ~StrLess(rs[i].year, rs[j].year)
                        /\ \A j \in 1..(i-1) : StrLess(rs[j].year, rs[i].year)
         IN  <<rs[top]>> \o
             SortByYearDesc(SubSeq(rs, 1, top - 1) \o SubSeq(rs, top + 1, Len(rs)))

SeriesLen == 4

\* (a slip: the slice starts one late, rs[1:5])
Newest_offByOne(rs) == SubSeq(rs, 2, IF Len(rs) < SeriesLen + 1 THEN Len(rs) ELSE SeriesLen + 1)

\* rs[:4]
Newest(rs) == Prefix(rs, SeriesLen)

Reduce(results) == Newest(SortByYearDesc(DedupeByYear(results)))

(***************************************************************************)
(* server.company: "Deduplicate by year and format", lines 126-145, without *)
(* the formatting: the first record seen for a year is kept, then the list *)
(* is sorted by year, newest first, and cut to 4.                          *)
(***************************************************************************)
RECURSIVE UniqueFrom(_, _)
UniqueFrom(unique_financials, financials) ==
    IF financials = <<>> THEN unique_financials
    ELSE LET f == Head(financials)
         IN  IF YearIndex(unique_financials, f.year) = 0
             THEN UniqueFrom(Append(unique_financials, f), Tail(financials))
             ELSE UniqueFrom(unique_financials, Tail(financials))

UniqueByYear(financials) == UniqueFrom(<<>>, financials)

ServerReduce(financials) == Newest(SortByYearDesc(UniqueByYear(financials)))

(***************************************************************************)
(* parse_accounts_bulk.extract_company_number.  The path is a string of    *)
(* characters.  Of the first 5000 characters of the content the model      *)
(* keeps the places a rule can match, in order: each is                    *)
(*   [label, sep, digits, next]                                            *)
(* the words that end at the separator (<<"Company", "Number">>, or the    *)
(* words of a tag's text up to its ">"), the characters between them and   *)
(* the digit run, the digit run, and the character after it.               *)
(***************************************************************************)
CompanyDigits == 8     \* \d{8},  \d{6,8},  zfill(8)
MinHeadDigits == 6     \* \d{6,8}

\* os.path.basename(filepath)
Basename(path) ==
    IF "/" \in Chars(path)
    THEN LET last == CHOOSE i \in 1..Len(path) :
                        path[i] = "/" /\ \A j \in (i+1)..Len(path) : path[j] # "/"
         IN  SubSeq(path, last + 1, Len(path))
    ELSE path

DigitRunAt(s, i, k) ==
    /\ i >= 1 /\ i + k - 1 <= Len(s)
    /\ \A j \in i..(i + k - 1) : s[j] \in Digits

\* re.search(r"_(\d{8})_", basename): the places where it matches
UnderscoredAt(s) ==
    {i \in 1..Len(s) :
        /\ s[i] = "_" /\ DigitRunAt(s, i + 1, CompanyDigits)
        /\ i + CompanyDigits + 1 <= Len(s) /\ s[i + CompanyDigits + 1] = "_"}

\* re.search(r"(\d{8})", basename): the places where it matches
EightDigitsAt(s) == {i \in 1..Len(s) : DigitRunAt(s, i, CompanyDigits)}

Leftmost(S) == CHOOSE i \in S : \A j \in S : i <= j

\* s.zfill(8)
RECURSIVE ZFill(_, _)
ZFill_none(s, k) == s

ZFill(s, k) == IF Len(s) >= k THEN s ELSE ZFill(<<"0">> \o s, k)

\* the group (\d{6,8}) takes of a digit run: greedy, at most 8
Group68(run) == Prefix(run, CompanyDigits)

\* label[>\s:]+(\d{6,8}), case-insensitive
LabelRule(place, label) ==
    /\ EndsWith(place.label, LowerStr(label))
    /\ place.sep # <<>> /\ Chars(place.sep) \subseteq {">", " ", ":"}
    /\ Len(place.digits) >= MinHeadDigits

\* <[^>]*identifier[^>]*>(\d{6,8})<
TagRule(place) ==
    /\ \E i \in 1..Len(place.label) : LowerWord(place.label[i]) = "identifier"
    /\ place.sep = <<">">>
    /\ Len(place.digits) >= MinHeadDigits /\ Len(place.digits) <= CompanyDigits
    /\ place.next = "<"

\* the place of re.search's match among the places a rule matches, 0 for
\* no match
FirstPlace(places) == IF places = {} THEN 0 ELSE Leftmost(places)

\* the company number, or <<>> for None
extract_company_number(filepath, content_head) ==
    LET basename == Basename(filepath)
        places == 1..Len(content_head)
        c == FirstPlace({i \in places : LabelRule(content_head[i], <<"Company", "Number">>)})
        r == FirstPlace({i \in places : LabelRule(content_head[i], <<"Registered", "Number">>)})
        t == FirstPlace({i \in places : TagRule(content_head[i])})
    IN  IF UnderscoredAt(basename) # {}
        THEN SubSeq(basename, Leftmost(UnderscoredAt(basename)) + 1,
                    Leftmost(UnderscoredAt(basename)) + CompanyDigits)
        ELSE IF EightDigitsAt(basename) # {}
        THEN SubSeq(basename, Leftmost(EightDigitsAt(basename)),
                    Leftmost(EightDigitsAt(basename)) + CompanyDigits - 1)
        ELSE IF c # 0 THEN ZFill(Group68(content_head[c].digits), CompanyDigits)
        ELSE IF r # 0 THEN ZFill(Group68(content_head[r].digits), CompanyDigits)
        ELSE IF t # 0 THEN ZFill(content_head[t].digits, CompanyDigits)
        ELSE <<>>

(***************************************************************************)
(* parse_accounts_bulk.parse_ixbrl_fast                                    *)
(***************************************************************************)
DateLen == 10      \* get_text(strip=True)[:10]

BulkStored(blocks) ==
    {i \in 1..Len(blocks) :
        /\ blocks[i].id # <<>> /\ blocks[i].period
        /\ (blocks[i].instant # Missing \/ blocks[i].end # Missing)}

BulkContextInfo(ctx) ==
    [date |-> IF ctx.instant # Missing THEN Prefix(Strip(ctx.instant), DateLen)
              ELSE Prefix(Strip(ctx.end), DateLen),
     has_dimension |-> ctx.segment = "member"]

BulkContexts(blocks) ==
    LET ids == {blocks[i].id : i \in BulkStored(blocks)}
    IN  [id \in ids |->
            LET last == CHOOSE i \in BulkStored(blocks) :
                            /\ blocks[i].id = id
                            /\ \A j \in BulkStored(blocks) : blocks[j].id = id => j <= i
            IN  BulkContextInfo(blocks[last])]

\* soup.find_all(re.compile(r"nonfraction$", re.I))
RECURSIVE NonFractions(_)
NonFractions(tags) ==
    IF tags = <<>> THEN <<>>
    ELSE (IF Head(tags).kind = "nonFraction" THEN <<Head(tags)>> ELSE <<>>)
         \o NonFractions(Tail(tags))

BulkFieldSet == {BULK_CONCEPT_MAP[i][1] : i \in 1..Len(BULK_CONCEPT_MAP)}

BulkField(tag) == _CONCEPT_LOOKUP(LowerStr(LocalName(tag.name)))

BulkValue(tag) == parse_value(Strip(tag.text), ScaleAttr(tag), tag.sign)

\* the tags the loop body passes on to by_period: a mapped concept, a
\* resolved undimensioned context
BulkResolved(contexts, tag) ==
    /\ BulkField(tag) # ""
    /\ tag.ctx \in DOMAIN contexts
    /\ ~contexts[tag.ctx].has_dimension

DateIndex(by_period, date) ==
    IF \E i \in 1..Len(by_period) : by_period[i].period_end = date
    THEN CHOOSE i \in 1..Len(by_period) : by_period[i].period_end = date
    ELSE 0

\* (a slip: the  if field not in by_period[date]  guard left out)
StoreFirst_last(by_period, company_number, date, field, val) ==
    LET i == DateIndex(by_period, date)
    IN  IF i = 0
        THEN Append(by_period, [company_number |-> company_number, period_end |-> date,
                                v |-> [f \in BulkFieldSet |-> IF f = field THEN val ELSE None]])
        ELSE [by_period EXCEPT ![i].v[field] = val]

\* if date not in by_period: by_period[date] = {...}
\* if field not in by_period[date]: by_period[date][field] = val
StoreFirst(by_period, company_number, date, field, val) ==
    LET i == DateIndex(by_period, date)
    IN  IF i = 0
        THEN Append(by_period, [company_number |-> company_number, period_end |-> date,
                                v |-> [f \in BulkFieldSet |-> IF f = field THEN val ELSE None]])
        ELSE IF by_period[i].v[field] = None
             THEN [by_period EXCEPT ![i].v[field] = val]
             ELSE by_period

\* len(r): company_number, period_end and the fields the record holds
BulkLen(r) == 2 + Cardinality({f \in BulkFieldSet : r.v[f] # None})

MinContent == 200  \* if len(content) < 200: return []
MinKeys == 3       \* len(r) > 3

RECURSIVE BulkFilter(_)
BulkFilter(results) ==
    IF results = <<>> THEN <<>>
    ELSE (IF BulkLen(Head(results)) > MinKeys THEN <<Head(results)>> ELSE <<>>)
         \o BulkFilter(Tail(results))

\* if not company_number: return []
Unidentified_never(company_number) == FALSE

Unidentified(company_number) == company_number = <<>>

\* the  for tag in soup.find_all(nonfraction)  loop: by_period, or Raised
\* when parse_value raises
RECURSIVE BulkTags(_, _, _, _)
BulkTags(company_number, contexts, tags, by_period) ==
    IF tags = <<>> THEN by_period
    ELSE LET tag == Head(tags)
         IN  IF ~BulkResolved(contexts, tag)
             THEN BulkTags(company_number, contexts, Tail(tags), by_period)
             ELSE IF BulkValue(tag) = Raised THEN Raised
             ELSE IF BulkValue(tag) = None
             THEN BulkTags(company_number, contexts, Tail(tags), by_period)
             ELSE BulkTags(company_number, contexts, Tail(tags),
                           StoreFirst(by_period, company_number, contexts[tag.ctx].date,
                                      BulkField(tag), BulkValue(tag)))

\* parse_ixbrl_fast as a whole: the returned list;  except Exception:
\* return []  turns every exception into the empty list
parse_ixbrl_fast(doc) ==
    LET company_number == extract_company_number(doc.file.path, doc.file.head)
        contexts       == BulkContexts(doc.ctxs)
    IN  IF doc.file.length < MinContent \/ Unidentified(company_number)
           \/ DOMAIN contexts = {}
        THEN <<>>
        ELSE LET by_period == BulkTags(company_number, contexts,
                                       NonFractions(doc.tags), <<>>)
             IN  IF by_period = Raised THEN <<>> ELSE BulkFilter(by_period)

\* results = []; for filepath in file_batch: results.extend(parse_ixbrl_fast(filepath))
RECURSIVE process_batch(_)
process_batch(file_batch) ==
    IF file_batch = <<>> THEN <<>>
    ELSE parse_ixbrl_fast(Head(file_batch)) \o process_batch(Tail(file_batch))

(***************************************************************************)
(* parse_accounts_bulk.parse_all_accounts.  The run starts with the files  *)
(* find_all_account_files found and no output file in place.               *)
(***************************************************************************)
BatchSize == 2       \* batch_size (500 in the source), scaled to the file lists drawn
MinFileSize == 500   \* os.path.getsize(f) > 500
YearMin == 2000      \* df["year"] >= 2000
YearMax == 2026      \* df["year"] <= 2026

\* [f for f in all_files if os.path.getsize(f) > 500]
RECURSIVE SizeFilter(_)
SizeFilter(files) ==
    IF files = <<>> THEN <<>>
    ELSE (IF Head(files).file.length > MinFileSize THEN <<Head(files)>> ELSE <<>>)
         \o SizeFilter(Tail(files))

\* [all_files[i:i + batch_size] for i in range(0, len(all_files), batch_size)]
RECURSIVE Batches(_, _)
Batches(all_files, batch_size) ==
    IF all_files = <<>> THEN <<>>
    ELSE <<Prefix(all_files, batch_size)>>
         \o Batches(SubSeq(all_files, batch_size + 1, Len(all_files)), batch_size)

\* pd.to_datetime(period_end, errors="coerce").dt.year for a date written
\* yyyy-mm-dd; 0 stands for NaT, which is what a text with no date in it
\* becomes
ToYear(date) ==
    IF /\ Len(date) = DateLen
       /\ \A i \in {1, 2, 3, 4, 6, 7, 9, 10} : date[i] \in Digits
       /\ date[5] = "-" /\ date[8] = "-"
       /\ DigitsVal(SubSeq(date, 6, 7)) \in 1..12
       /\ DigitsVal(SubSeq(date, 9, 10)) \in 1..31
    THEN DigitsVal(SubSeq(date, 1, 4))
    ELSE 0

\* the rows left by dropna and by the year filter, each with its year
RECURSIVE WithYear(_)
WithYear(rows) ==
    IF rows = <<>> THEN <<>>
    ELSE LET r == Head(rows)
             year == ToYear(r.period_end)
         IN  (IF year >= YearMin /\ year <= YearMax
              THEN <<[company_number |-> r.company_number, period_end |-> r.period_end,
                      year |-> year, v |-> r.v]>>
              ELSE <<>>)
             \o WithYear(Tail(rows))

\* df.notna().sum(axis=1): company_number, period_end, year and the fields held
DataCount(r) == 3 + Cardinality({f \in BulkFieldSet : r.v[f] # None})

PairOf(r) == <<r.company_number, r.year>>

\* (a slip: drop_duplicates without the sort, the first row of a pair stays)
Deduplicated_unsorted(rows) ==
    LET idx   == 1..Len(rows)
        pairs == {PairOf(rows[i]) : i \in idx}
        first(pair) == CHOOSE i \in idx :
                           /\ PairOf(rows[i]) = pair
                           /\ \A j \in 1..(i - 1) : PairOf(rows[j]) # pair
    IN  {{rows[first(pair)] : pair \in pairs}}

\* sort_values("data_count", ascending=False).drop_duplicates(subset=
\* ["company_number", "year"], keep="first"): the sets of rows it can leave.
\* The sort is not stable, so among the fullest rows of a pair any may come
\* first.
Deduplicated(rows) ==
    LET idx   == 1..Len(rows)
        pairs == {PairOf(rows[i]) : i \in idx}
        best(pair) == {i \in idx : /\ PairOf(rows[i]) = pair
                                   /\ \A j \in idx : PairOf(rows[j]) = pair
                                         => DataCount(rows[j]) <= DataCount(rows[i])}
    IN  {{rows[pick[pair]] : pair \in pairs} :
            pick \in {f \in [pairs -> idx] : \A pair \in pairs : f[pair] \in best(pair)}}

\* company numbers are strings of digits of one length: their order as
\* strings is the order of their values
RowBefore(r, q) ==
    \/ DigitsVal(r.company_number) < DigitsVal(q.company_number)
    \/ r.company_number = q.company_number /\ r.year < q.year

\* sort_values(["company_number", "year"]).reset_index(drop=True)
RECURSIVE SortRows(_)
SortRows(S) ==
    IF S = {} THEN <<>>
    ELSE LET first == CHOOSE r \in S : \A q \in S \ {r} : RowBefore(r, q)
         IN  <<first>> \o SortRows(S \ {first})

(***************************************************************************)
(* bytes.decode, as parse_ixbrl calls it.  The content is a sequence of    *)
(* bytes (0..255), the decoded text the sequence of its code points.  A    *)
(* decoding ends with the text or with the exception it raises.            *)
(***************************************************************************)
Text(chars) == [kind |-> "text", chars |-> chars, error |-> ""]
Error(name) == [kind |-> "raise", chars |-> <<>>, error |-> name]

IsCont(b) == b >= 128 /\ b <= 191

\* the number of bytes of the UTF-8 sequence that starts content, 0 if
\* content does not start with a well-formed sequence
Utf8Len(content) ==
    LET b == content[1]
        cont(i) == Len(content) >= i /\ IsCont(content[i])
    IN  IF b < 128 THEN 1
        ELSE IF b >= 194 /\ b <= 223 /\ cont(2) THEN 2
        ELSE IF /\ b >= 224 /\ b <= 239 /\ cont(2) /\ cont(3)
                /\ (b = 224 => content[2] >= 160)
                /\ (b = 237 => content[2] <= 159) THEN 3
        ELSE IF /\ b >= 240 /\ b <= 244 /\ cont(2) /\ cont(3) /\ cont(4)
                /\ (b = 240 => content[2] >= 144)
                /\ (b = 244 => content[2] <= 143) THEN 4
        ELSE 0

Utf8Point(content, n) ==
    CASE n = 1 -> content[1]
      [] n = 2 -> (content[1] - 192) * 64 + (content[2] - 128)
      [] n = 3 -> (content[1] - 224) * 4096 + (content[2] - 128) * 64 + (content[3] - 128)
      [] n = 4 -> (content[1] - 240) * 262144 + (content[2] - 128) * 4096
                  + (content[3] - 128) * 64 + (content[4] - 128)

RECURSIVE DecodeUtf8(_)
DecodeUtf8(content) ==
    IF content = <<>> THEN Text(<<>>)
    ELSE LET n == Utf8Len(content)
         IN  IF n = 0 THEN Error("UnicodeDecodeError")
             ELSE LET rest == DecodeUtf8(SubSeq(content, n + 1, Len(content)))
                  IN  IF rest.kind = "raise" THEN rest
                      ELSE Text(<<Utf8Point(content, n)>> \o rest.chars)

DecodeAscii(content) ==
    IF \A i \in 1..Len(content) : content[i] < 128
    THEN Text(content) ELSE Error("UnicodeDecodeError")

DecodeLatin1(content) == Text(content)

\* content.decode(encoding)
Decode(content, encoding) ==
    CASE encoding = "utf-8"   -> DecodeUtf8(content)
      [] encoding = "ascii"   -> DecodeAscii(content)
      [] encoding = "latin-1" -> DecodeLatin1(content)
      [] OTHER                -> Error("LookupError")

\* try: content.decode(encoding)  except UnicodeDecodeError:
\* content.decode("latin-1")
DecodeContent(content, encoding) ==
    LET first == Decode(content, encoding)
    IN  IF first.kind = "raise" /\ first.error = "UnicodeDecodeError"
        THEN Decode(content, "latin-1")
        ELSE first

(***************************************************************************)
(* clearview_score.calc_credit_limit.  The score and the figures are exact *)
(* decimals; the limit is carried as a fraction num / den until it is      *)
(* rounded.  insolvency is company_data.get("insolvency", {}), a record    *)
(* [has_active_case, cases]: has_active_case is "True", "False" or, when   *)
(* the dict does not hold the key, ""; cases is a list, or Missing.        *)
(***************************************************************************)
AtLeast(score, k) == score.n >= k * 10^score.d

Positive(v) == v # None /\ v.n > 0

\* round(x) for x = num / den >= 0: to the nearest integer, a tie to the
\* even one
Round(num, den) ==
    LET q == num \div den
        r == num % den
    IN  IF 2 * r < den THEN q
        ELSE IF 2 * r > den THEN q + 1
        ELSE IF q % 2 = 0 THEN q ELSE q + 1

\* has_active_case, and cases, as conditions
Holds(insolvency, key) ==
    IF key = "has_active_case" THEN insolvency.has_active_case = "True"
    ELSE insolvency.cases # Missing /\ insolvency.cases # <<>>

\* the percentage of the base figure, out of 100
BasePercent(score, f) ==
    IF Positive(f.net_assets)
    THEN (IF AtLeast(score, 80) THEN 10 ELSE IF AtLeast(score, 65) THEN 7
          ELSE IF AtLeast(score, 50) THEN 5 ELSE IF AtLeast(score, 35) THEN 3 ELSE 2)
    ELSE IF Positive(f.total_assets)
    THEN (IF AtLeast(score, 65) THEN 3 ELSE IF AtLeast(score, 50) THEN 2 ELSE 1)
    ELSE IF Positive(f.cash) THEN 15
    ELSE 100

\* the figure the percentage is taken of
BaseFigure(score, f) ==
    IF Positive(f.net_assets) THEN f.net_assets
    ELSE IF Positive(f.total_assets) THEN f.total_assets
    ELSE IF Positive(f.cash) THEN f.cash
    ELSE IF AtLeast(score, 65) THEN Norm(2000, 0)
    ELSE IF AtLeast(score, 50) THEN Norm(1000, 0)
    ELSE Norm(500, 0)

Basis(f) ==
    IF Positive(f.net_assets) THEN "Based on net assets"
    ELSE IF Positive(f.total_assets)
    THEN "Based on total assets (net assets not available)"
    ELSE IF Positive(f.cash) THEN "Based on cash position"
    ELSE "Limited financial data - conservative estimate"

\* multiplier, out of 10
Multiplier(score) ==
    IF AtLeast(score, 80) THEN 15 ELSE IF AtLeast(score, 65) THEN 12
    ELSE IF AtLeast(score, 50) THEN 10 ELSE IF AtLeast(score, 35) THEN 7 ELSE 4

\* if insolvency.get("cases"): limit *= 0.5, as halves
Halved(insolvency) == IF Holds(insolvency, "cases") THEN 1 ELSE 2

\* limit = max(250, min(limit, 500000)) and the rounding to nice numbers
NiceLimit(num, den) ==
    LET whole == num \div den
    IN  IF whole >= 500000 THEN 500000
        ELSE IF whole < 250 THEN 250
        ELSE IF whole < 1000 THEN Round(num, 50 * den) * 50
        ELSE IF whole < 10000 THEN Round(num, 250 * den) * 250
        ELSE IF whole < 100000 THEN Round(num, 1000 * den) * 1000
        ELSE Round(num, 5000 * den) * 5000

Confidence(score, financials) ==
    LET net_assets == financials[1].net_assets
    IN  IF net_assets # None /\ Len(financials) >= 2 /\ AtLeast(score, 50) THEN "high"
        ELSE IF net_assets = None \/ Len(financials) < 2 THEN "low"
        ELSE "medium"

Limit(limit, basis, confidence) ==
    [limit |-> limit, basis |-> basis, confidence |-> confidence]

calc_credit_limit(score, financials, insolvency) ==
    IF ~AtLeast(score, 20) \/ Holds(insolvency, "has_active_case")
    THEN Limit(0, "Not recommended - high risk or active insolvency", "low")
    ELSE IF financials = <<>>
    THEN Limit(500, "Minimal data available - conservative limit", "low")
    ELSE LET f    == financials[1]
             base == BaseFigure(score, f)
             num  == base.n * BasePercent(score, f) * Multiplier(score) * Halved(insolvency)
             den  == 2000 * 10^base.d
         IN  Limit(NiceLimit(num, den),
                   Basis(f) \o (IF Holds(insolvency, "cases")
                                THEN " (reduced - past insolvency)" ELSE ""),
                   Confidence(score, financials))

(***************************************************************************)
(* extract_financials_from_ixbrl as a whole: the returned list, or Raises. *)
(***************************************************************************)
RECURSIVE BuildResults(_, _, _)
BuildResults(contexts, facts, keys) ==
    IF keys = <<>> THEN <<>>
    ELSE LET record == BuildRecord(contexts, facts, Head(keys))
         IN  (IF has_data(record) THEN <<record>> ELSE <<>>)
             \o BuildResults(contexts, facts, Tail(keys))

\* what a call hands back: the returned list, or the exception
Returned(list) == [raised |-> FALSE, list |-> list]
Raises == [raised |-> TRUE, list |-> <<>>]

ExtractParsed(contexts, facts) ==
    IF facts = <<>> THEN <<>>
    ELSE Reduce(BuildResults(contexts, facts, SortedDesc(PeriodKeys(contexts))))

extract_financials_from_ixbrl(doc) ==
    IF ParseRaises(doc.tags) THEN Raises
    ELSE Returned(ExtractParsed(ParseContexts(doc.ctxs), ParseFacts(doc.tags)))

(***************************************************************************)
(* accounts_parser.format_for_frontend                                     *)
(***************************************************************************)
FrontFields ==
    {"turnover", "cost_of_sales", "gross_profit", "ebit", "net_profit",
     "total_assets", "current_assets", "total_liabilities", "current_liabilities",
     "net_assets", "retained_earnings", "cash", "creditors_due_within_year",
     "employees"}

\* a or b
Or(a, b) == IF Truthy(a) THEN a ELSE b

\* int(v) for a float: towards zero
IntOf(v) ==
    IF v.n >= 0 THEN Num(v.n \div 10^v.d) ELSE Num(-((-v.n) \div 10^v.d))

FrontRecord(f) ==
    [year       |-> f.year,
     period_end |-> f.period_end,
     v |-> [k \in FrontFields |->
              CASE k = "current_liabilities" ->
                       Or(f.v["current_liabilities"], f.v["creditors_due_within_year"])
                [] k = "creditors_due_within_year" ->
                       Or(f.v["creditors_due_within_year"], f.v["current_liabilities"])
                [] k = "employees" ->
                       IF f.v["employees"] # None THEN IntOf(f.v["employees"]) ELSE None
                [] OTHER -> f.v[k]]]

format_for_frontend(financials_list) ==
    [i \in 1..Len(financials_list) |-> FrontRecord(financials_list[i])]

(***************************************************************************)
(* server.company, the /api/company/<number> handler, and its              *)
(* collaborators of ch_api as far as the handler sees them.                *)
(*   ch: [number, sic_codes, filings, fallback]  the one company that      *)
(*       Companies House knows, its SIC codes, its accounts filings and    *)
(*       what get_financials_from_convert_ixbrl returns for it (<<>> for   *)
(*       None)                                                             *)
(*   filing: [link, content, content_type, doc]                            *)
(*       link          whether links.document_metadata is there            *)
(*       content       "none" (None), "empty" (b"") or "bytes"             *)
(*       content_type  "none" (None), "application/pdf" or                 *)
(*                     "application/xhtml+xml"                             *)
(*       doc           the document the bytes hold                         *)
(***************************************************************************)
Upper(c) ==
    CASE c = "s" -> "S" [] c = "c" -> "C" [] OTHER -> c

\* number.strip().upper()
StripUpper(number) == [i \in 1..Len(Strip(number)) |-> Upper(Strip(number)[i])]

\* "html" in (content_type or "").lower()
HasHtml(content_type) == content_type = "application/xhtml+xml"

\* "xml" in (content_type or "").lower()
HasXml(content_type) == content_type = "application/xhtml+xml"

\* what one filing adds to financials: the body of  for filing in filings[:4]
FilingFinancials(filing) ==
    IF ~filing.link THEN <<>>
    ELSE IF (filing.content = "bytes" /\ HasHtml(filing.content_type))
            \/ HasXml(filing.content_type)
         THEN LET parsed == extract_financials_from_ixbrl(
                                IF filing.content = "bytes" THEN filing.doc ELSE NoDoc)
              IN  IF parsed.raised THEN <<>> ELSE parsed.list
         ELSE <<>>

ParseLimit == 4    \* filings[:4]

RECURSIVE ExtendAll(_)
ExtendAll(filings) ==
    IF filings = <<>> THEN <<>>
    ELSE FilingFinancials(Head(filings)) \o ExtendAll(Tail(filings))

\* financials after the loop over filings[:4]
Financials(filings) == ExtendAll(Prefix(filings, ParseLimit))

\* unique_financials after the fallback
WithFallback(unique_financials, fallback) ==
    IF unique_financials = <<>> /\ fallback # <<>> THEN fallback ELSE unique_financials

\* server.get_sic_description, for the codes of the model
get_sic_description(code) ==
    CASE code = "62012" -> "Business and domestic software development"
      [] OTHER -> "SIC " \o code

\* data as the handler caches and returns it
CompanyData(company) ==
    [company_number |-> company.number,
     financials |-> format_for_frontend(
                        Newest(SortByYearDesc(
                            WithFallback(UniqueByYear(Financials(company.filings)),
                                         company.fallback)))),
     sic_desc |-> IF company.sic_codes # <<>>
                  THEN get_sic_description(company.sic_codes[1]) ELSE ""]

Cached(cache, number) == \E e \in cache : e.number = number

CacheGet(cache, number) == (CHOOSE e \in cache : e.number = number).data

\* _company_cache[number] = data
CacheSet(cache, number, data) ==
    {e \in cache : e.number # number} \cup {[number |-> number, data |-> data]}

(***************************************************************************)
(* The decoder specification: every text up to MaxLen characters over      *)
(* TextChars, with every scale string of ScalePool and both sign markers,  *)
(* is handed to each of the two decoders.                                  *)
(***************************************************************************)
TextChars == {"0", "5", ",", "(", ")", "-", ".", "x"}

Texts == UNION {[1..k -> TextChars] : k \in 0..MaxLen}

ScalePool == {<<>>, <<"0">>, <<"3">>, <<"-", "2">>, <<"x">>, <<"4", "0", "0">>}

SignPool == {"", "-"}

DecIdle ==
    /\ d_text = <<>>
    /\ d_scale = <<>>
    /\ d_sign = ""
    /\ d_single = Pending
    /\ d_bulk = Pending

NoRecord == [period_end |-> Missing, year |-> <<>>, v |-> [f \in FieldSet |-> None]]

NotAgain == [parser |-> <<>>, server |-> <<>>]

BulkIdle ==
    /\ b_pc = "idle"
    /\ b_company = <<>>
    /\ b_contexts = <<>>
    /\ b_todo = <<>>
    /\ b_by_period = <<>>
    /\ b_out = <<>>

NoData == [company_number |-> <<>>, financials |-> <<>>, sic_desc |-> ""]

NoCompany == [number |-> <<>>, sic_codes |-> <<>>, filings |-> <<>>, fallback |-> <<>>]

NoResponse == [status |-> 0, body |-> "", data |-> NoData]

ServerIdle ==
    /\ ch = NoCompany
    /\ _company_cache = {}
    /\ response = NoResponse

PipeIdle ==
    /\ a_pc = "idle"
    /\ a_files = <<>>
    /\ a_batches = <<>>
    /\ a_pending = {}
    /\ a_queue = <<>>
    /\ a_rows = <<>>
    /\ a_parsed_count = 0
    /\ a_failed_count = 0
    /\ a_out = <<>>

EncIdle ==
    /\ e_content = <<>>
    /\ e_encoding = ""
    /\ e_out = Pending

LimIdle ==
    /\ l_score = 0
    /\ l_financials = <<>>
    /\ l_insolvency = [has_active_case |-> "", cases |-> Missing]
    /\ l_out = Pending

\* the server's threads
Threads == 1..MaxThreads

ReqIdle ==
    /\ r_pc = [t \in Threads |-> "idle"]
    /\ r_number = [t \in Threads |-> <<>>]
    /\ r_data = [t \in Threads |-> NoData]
    /\ r_response = [t \in Threads |-> NoResponse]

TrendIdle ==
    /\ p_new = None
    /\ p_old = None
    /\ p_out = Pending
    /\ f_vals = <<>>
    /\ f_row = Pending

OthersIdle == PipeIdle /\ EncIdle /\ LimIdle /\ ReqIdle /\ TrendIdle

DocIdle ==
    /\ x_doc = NoDoc
    /\ x_pc = "idle"
    /\ x_contexts = <<>>
    /\ x_facts = <<>>
    /\ x_todo = <<>>
    /\ x_record = NoRecord
    /\ x_results = <<>>
    /\ x_by_year = <<>>
    /\ x_out = <<>>
    /\ x_again = NotAgain

InitDecode ==
    /\ d_text \in Texts
    /\ d_scale \in ScalePool
    /\ d_sign \in SignPool
    /\ d_single = Pending
    /\ d_bulk = Pending
    /\ DocIdle
    /\ BulkIdle
    /\ ServerIdle
    /\ OthersIdle

DecodeSingle ==
    /\ d_single = Pending
    /\ d_single' = _parse_value(d_text, d_scale, d_sign)
    /\ UNCHANGED <<d_text, d_scale, d_sign, d_bulk, docVars, bulkVars, srvVars, pipeVars, encVars, limVars, reqVars, trendVars>>

DecodeBulk ==
    /\ d_bulk = Pending
    /\ d_bulk' = parse_value(d_text, d_scale, d_sign)
    /\ UNCHANGED <<d_text, d_scale, d_sign, d_single, docVars, bulkVars, srvVars, pipeVars, encVars, limVars, reqVars, trendVars>>

(***************************************************************************)
(* extract_financials_from_ixbrl, step by step.                            *)
(*   x_pc: "call" -> "period" -> ("liabilities" -> "assets" -> "alias" ->  *)
(*   "retain" -> "period")* -> "done", or "raised".                        *)
(***************************************************************************)
\* the calls start with the document as their only state: x_pc = "call" is
\* a call of extract_financials_from_ixbrl, b_pc = "open" one of
\* parse_ixbrl_fast on the file that holds the document
DocStart(doc, pc, bulk_pc) ==
    /\ x_doc = doc
    /\ x_pc = pc
    /\ b_pc = bulk_pc
    /\ x_contexts = <<>>
    /\ x_facts = <<>>
    /\ x_todo = <<>>
    /\ x_record = NoRecord
    /\ x_results = <<>>
    /\ x_by_year = <<>>
    /\ x_out = <<>>
    /\ x_again = NotAgain
    /\ b_company = <<>>
    /\ b_contexts = <<>>
    /\ b_todo = <<>>
    /\ b_by_period = <<>>
    /\ b_out = <<>>
    /\ ServerIdle
    /\ OthersIdle

\* parse_ixbrl, "if not facts: return []", and the grouping of the contexts
Parse ==
    /\ x_pc = "call"
    /\ IF ParseRaises(x_doc.tags)
       THEN /\ x_pc' = "raised"
            /\ UNCHANGED <<x_contexts, x_facts, x_todo>>
       ELSE /\ x_contexts' = ParseContexts(x_doc.ctxs)
            /\ x_facts' = ParseFacts(x_doc.tags)
            /\ IF x_facts' = <<>>
               THEN x_pc' = "done" /\ x_todo' = <<>>
               ELSE x_pc' = "period" /\ x_todo' = SortedDesc(PeriodKeys(x_contexts'))
    /\ UNCHANGED <<x_doc, x_record, x_results, x_by_year, x_out, x_again, decVars, bulkVars, srvVars, pipeVars, encVars, limVars, reqVars, trendVars>>

\* the head of the period loop and its  for field in fields_to_extract  loop
Select ==
    /\ x_pc = "period" /\ x_todo # <<>>
    /\ x_record' = SelectFields(x_contexts, x_facts, Head(x_todo))
    /\ x_pc' = "liabilities"
    /\ UNCHANGED <<x_doc, x_contexts, x_facts, x_todo, x_results, x_by_year, x_out, x_again, decVars, bulkVars, srvVars, pipeVars, encVars, limVars, reqVars, trendVars>>

TotalLiabilities ==
    /\ x_pc = "liabilities"
    /\ x_record' = DeriveLiabilities(x_record)
    /\ x_pc' = "assets"
    /\ UNCHANGED <<x_doc, x_contexts, x_facts, x_todo, x_results, x_by_year, x_out, x_again, decVars, bulkVars, srvVars, pipeVars, encVars, limVars, reqVars, trendVars>>

TotalAssets ==
    /\ x_pc = "assets"
    /\ x_record' = DeriveAssets(x_record)
    /\ x_pc' = "alias"
    /\ UNCHANGED <<x_doc, x_contexts, x_facts, x_todo, x_results, x_by_year, x_out, x_again, decVars, bulkVars, srvVars, pipeVars, encVars, limVars, reqVars, trendVars>>

Creditors ==
    /\ x_pc = "alias"
    /\ x_record' = AliasCreditors(x_record)
    /\ x_pc' = "retain"
    /\ UNCHANGED <<x_doc, x_contexts, x_facts, x_todo, x_results, x_by_year, x_out, x_again, decVars, bulkVars, srvVars, pipeVars, encVars, limVars, reqVars, trendVars>>

\* if has_data: results.append(record); then on to the next period
Retain ==
    /\ x_pc = "retain"
    /\ x_results' = IF has_data(x_record) THEN Append(x_results, x_record) ELSE x_results
    /\ x_todo' = Tail(x_todo)
    /\ x_record' = NoRecord
    /\ x_pc' = "period"
    /\ UNCHANGED <<x_doc, x_contexts, x_facts, x_by_year, x_out, x_again, decVars, bulkVars, srvVars, pipeVars, encVars, limVars, reqVars, trendVars>>

\* after the period loop: the  for r in results  loop that fills by_year
Dedupe ==
    /\ x_pc = "period" /\ x_todo = <<>>
    /\ x_by_year' = DedupeByYear(x_results)
    /\ x_pc' = "deduped"
    /\ UNCHANGED <<x_doc, x_contexts, x_facts, x_todo, x_record, x_results, x_out, x_again, decVars, bulkVars, srvVars, pipeVars, encVars, limVars, reqVars, trendVars>>

\* return sorted(by_year.values(), key=..., reverse=True)[:4]
Return ==
    /\ x_pc = "deduped"
    /\ x_out' = Newest(SortByYearDesc(x_by_year))
    /\ x_pc' = "done"
    /\ UNCHANGED <<x_doc, x_contexts, x_facts, x_todo, x_record, x_results, x_by_year, x_again, decVars, bulkVars, srvVars, pipeVars, encVars, limVars, reqVars, trendVars>>

\* each reducer (the extractor's and the /api/company handler's) run once
\* more, on the list the extractor returned
ReduceAgain ==
    /\ x_pc = "done"
    /\ x_again' = [parser |-> Reduce(x_out), server |-> ServerReduce(x_out)]
    /\ x_pc' = "reduced again"
    /\ UNCHANGED <<x_doc, x_contexts, x_facts, x_todo, x_record, x_results, x_by_year, x_out, decVars, bulkVars, srvVars, pipeVars, encVars, limVars, reqVars, trendVars>>

NextExtract ==
    \/ Parse \/ Select \/ TotalLiabilities \/ TotalAssets \/ Creditors
    \/ Retain \/ Dedupe \/ Return

(***************************************************************************)
(* parse_ixbrl_fast, step by step.                                         *)
(*   b_pc: "open" -> "tags" -> "done"; every early return, and the         *)
(*   except Exception: return []  handler, go to "done" with an empty list.*)
(***************************************************************************)
\* read the file, the length check, the company number, the contexts
BulkOpen ==
    /\ b_pc = "open"
    /\ LET company_number == extract_company_number(x_doc.file.path, x_doc.file.head)
           contexts       == BulkContexts(x_doc.ctxs)
       IN  IF x_doc.file.length < MinContent \/ Unidentified(company_number)
              \/ DOMAIN contexts = {}
           THEN /\ b_pc' = "done"
                /\ UNCHANGED <<b_company, b_contexts, b_todo>>
           ELSE /\ b_pc' = "tags"
                /\ b_company' = company_number
                /\ b_contexts' = contexts
                /\ b_todo' = NonFractions(x_doc.tags)
    /\ UNCHANGED <<x_doc, x_pc, x_contexts, x_facts, x_todo, x_record, x_results,
                   x_by_year, x_out, x_again, b_by_period, b_out, decVars, srvVars, pipeVars, encVars, limVars, reqVars, trendVars>>

\* one iteration of  for tag in soup.find_all(nonfraction)
BulkTag ==
    /\ b_pc = "tags" /\ b_todo # <<>>
    /\ LET tag == Head(b_todo)
       IN  IF ~BulkResolved(b_contexts, tag)
           THEN /\ b_todo' = Tail(b_todo)
                /\ UNCHANGED <<b_pc, b_by_period>>
           ELSE IF BulkValue(tag) = Raised
           THEN /\ b_pc' = "done"
                /\ UNCHANGED <<b_todo, b_by_period>>
           ELSE /\ b_todo' = Tail(b_todo)
                /\ b_pc' = b_pc
                /\ b_by_period' =
                      IF BulkValue(tag) = None THEN b_by_period
                      ELSE StoreFirst(b_by_period, b_company,
                                      b_contexts[tag.ctx].date, BulkField(tag), BulkValue(tag))
    /\ UNCHANGED <<x_doc, x_pc, x_contexts, x_facts, x_todo, x_record, x_results,
                   x_by_year, x_out, x_again, b_company, b_contexts, b_out, decVars, srvVars, pipeVars, encVars, limVars, reqVars, trendVars>>

\* results = [r for r in by_period.values() if len(r) > 3]; return results
BulkReturn ==
    /\ b_pc = "tags" /\ b_todo = <<>>
    /\ b_out' = BulkFilter(b_by_period)
    /\ b_pc' = "done"
    /\ UNCHANGED <<x_doc, x_pc, x_contexts, x_facts, x_todo, x_record, x_results,
                   x_by_year, x_out, x_again, b_company, b_contexts, b_todo,
                   b_by_period, decVars, srvVars, pipeVars, encVars, limVars, reqVars, trendVars>>

NextBulk == BulkOpen \/ BulkTag \/ BulkReturn

(***************************************************************************)
(* parse_all_accounts, step by step.                                       *)
(*   a_pc: "scan" -> "pool" -> "done".  The workers of the pool finish     *)
(*   their batches in any order; imap_unordered yields the results in the  *)
(*   order in which they were finished.                                    *)
(***************************************************************************)
\* the size filter,  if not all_files: return,  the batches, the counters
Scan ==
    /\ a_pc = "scan"
    /\ LET all_files == SizeFilter(a_files)
       IN  /\ a_files' = all_files
           /\ IF all_files = <<>>
              THEN /\ a_pc' = "done"
                   /\ UNCHANGED <<a_batches, a_pending>>
              ELSE /\ a_pc' = "pool"
                   /\ a_batches' = Batches(all_files, BatchSize)
                   /\ a_pending' = 1..Len(a_batches')
    /\ a_rows' = <<>>
    /\ a_parsed_count' = 0
    /\ a_failed_count' = 0
    /\ UNCHANGED <<a_queue, a_out, decVars, docVars, bulkVars, srvVars, encVars, limVars, reqVars, trendVars>>

\* a worker finishes process_batch on one batch
Work(i) ==
    /\ a_pc = "pool" /\ i \in a_pending
    /\ a_pending' = a_pending \ {i}
    /\ a_queue' = Append(a_queue, [batch |-> i, rows |-> process_batch(a_batches[i])])
    /\ UNCHANGED <<a_pc, a_files, a_batches, a_rows, a_parsed_count, a_failed_count,
                   a_out, decVars, docVars, bulkVars, srvVars, encVars, limVars, reqVars, trendVars>>

\* one iteration of  for batch_results in pool.imap_unordered(...)
Collect ==
    /\ a_pc = "pool" /\ a_queue # <<>>
    /\ a_rows' = a_rows \o Head(a_queue).rows
    /\ a_parsed_count' = a_parsed_count + BatchSize
    /\ a_queue' = Tail(a_queue)
    /\ UNCHANGED <<a_pc, a_files, a_batches, a_pending, a_failed_count, a_out,
                   decVars, docVars, bulkVars, srvVars, encVars, limVars, reqVars, trendVars>>

\* after the loop:  if not all_rows: return,  the DataFrame, to_parquet
Finish ==
    /\ a_pc = "pool" /\ a_pending = {} /\ a_queue = <<>>
    /\ a_pc' = "done"
    /\ IF a_rows = <<>>
       THEN a_out' = a_out
       ELSE \E kept \in Deduplicated(WithYear(a_rows)) : a_out' = SortRows(kept)
    /\ UNCHANGED <<a_files, a_batches, a_pending, a_queue, a_rows, a_parsed_count,
                   a_failed_count, decVars, docVars, bulkVars, srvVars, encVars, limVars, reqVars, trendVars>>

NextPipeline == Scan \/ (\E i \in a_pending : Work(i)) \/ Collect \/ Finish

(***************************************************************************)
(* The server's requests.                                                  *)
(***************************************************************************)
\* GET /api/company/<raw>.  build_company_data talks to Companies House
\* over the network: fails is a call of it that raises.
company(raw, fails) ==
    LET number == StripUpper(raw)
    IN  /\ IF Cached(_company_cache, number)
           THEN /\ response' = [status |-> 200, body |-> "cached",
                                data |-> CacheGet(_company_cache, number)]
                /\ UNCHANGED _company_cache
           ELSE IF fails
           THEN /\ response' = [status |-> 500, body |-> "error", data |-> NoData]
                /\ UNCHANGED _company_cache
           ELSE IF number # ch.number
           THEN /\ response' = [status |-> 404, body |-> "Company not found",
                                data |-> NoData]
                /\ UNCHANGED _company_cache
           ELSE LET data == CompanyData(ch)
                IN  /\ _company_cache' = CacheSet(_company_cache, number, data)
                    /\ response' = [status |-> 200, body |-> "data", data |-> data]
        /\ UNCHANGED <<ch, decVars, docVars, bulkVars, pipeVars, encVars, limVars, reqVars, trendVars>>

\* GET /api/cache/clear
clear_cache ==
    /\ _company_cache' = {}
    /\ response' = [status |-> 200, body |-> "cleared", data |-> NoData]
    /\ UNCHANGED <<ch, decVars, docVars, bulkVars, pipeVars, encVars, limVars, reqVars, trendVars>>

(***************************************************************************)
(* The server's requests, thread by thread.  app.run serves every request  *)
(* in a thread of its own, so the statements of two requests interleave:   *)
(*   r_pc[t]: "idle" -> "check" -> "hit" -> "idle"                         *)
(*                              -> "fetch" -> "idle" (not found, exception) *)
(*                                         -> "store" -> "idle"            *)
(***************************************************************************)
\* GET /api/company/<raw> arrives:  number = number.strip().upper()
Begin(t, raw) ==
    /\ r_pc[t] = "idle"
    /\ r_number' = [r_number EXCEPT ![t] = StripUpper(raw)]
    /\ r_response' = [r_response EXCEPT ![t] = NoResponse]
    /\ r_pc' = [r_pc EXCEPT ![t] = "check"]
    /\ UNCHANGED <<r_data, decVars, docVars, bulkVars, srvVars, pipeVars, encVars,
                   limVars, trendVars>>

\* if number in _company_cache:
Lookup(t) ==
    /\ r_pc[t] = "check"
    /\ r_pc' = [r_pc EXCEPT ![t] = IF Cached(_company_cache, r_number[t])
                                   THEN "hit" ELSE "fetch"]
    /\ UNCHANGED <<r_number, r_data, r_response, decVars, docVars, bulkVars, srvVars,
                   pipeVars, encVars, limVars, trendVars>>

\* return jsonify(_company_cache[number]): the subscript is outside the try
\* block, a KeyError ends the request with Flask's 500
ReturnCached(t) ==
    /\ r_pc[t] = "hit"
    /\ r_response' =
           [r_response EXCEPT ![t] =
               IF Cached(_company_cache, r_number[t])
               THEN [status |-> 200, body |-> "cached",
                     data |-> CacheGet(_company_cache, r_number[t])]
               ELSE [status |-> 500, body |-> "KeyError", data |-> NoData]]
    /\ r_pc' = [r_pc EXCEPT ![t] = "idle"]
    /\ UNCHANGED <<r_number, r_data, decVars, docVars, bulkVars, srvVars, pipeVars,
                   encVars, limVars, trendVars>>

\* the try block up to the cache store: build_company_data, the filings,
\* the fallback, the formatting
Fetch(t, fails) ==
    /\ r_pc[t] = "fetch"
    /\ IF fails
       THEN /\ r_response' = [r_response EXCEPT ![t] =
                                 [status |-> 500, body |-> "error", data |-> NoData]]
            /\ r_pc' = [r_pc EXCEPT ![t] = "idle"]
            /\ UNCHANGED r_data
       ELSE IF r_number[t] # ch.number
       THEN /\ r_response' = [r_response EXCEPT ![t] =
                                 [status |-> 404, body |-> "Company not found",
                                  data |-> NoData]]
            /\ r_pc' = [r_pc EXCEPT ![t] = "idle"]
            /\ UNCHANGED r_data
       ELSE /\ r_data' = [r_data EXCEPT ![t] = CompanyData(ch)]
            /\ r_pc' = [r_pc EXCEPT ![t] = "store"]
            /\ UNCHANGED r_response
    /\ UNCHANGED <<r_number, decVars, docVars, bulkVars, srvVars, pipeVars, encVars,
                   limVars, trendVars>>

\* _company_cache[number] = data; return jsonify(data)
Store(t) ==
    /\ r_pc[t] = "store"
    /\ _company_cache' = CacheSet(_company_cache, r_number[t], r_data[t])
    /\ r_response' = [r_response EXCEPT ![t] =
                         [status |-> 200, body |-> "data", data |-> r_data[t]]]
    /\ r_data' = [r_data EXCEPT ![t] = NoData]
    /\ r_pc' = [r_pc EXCEPT ![t] = "idle"]
    /\ UNCHANGED <<r_number, ch, response, decVars, docVars, bulkVars, pipeVars, encVars,
                   limVars, trendVars>>

(***************************************************************************)
(* clearview_score._pct_change.  The figures are whole numbers; a quotient *)
(* is kept as the fraction in lowest terms that the float approximates.    *)
(***************************************************************************)
RECURSIVE Gcd(_, _)
Gcd(a, b) == IF b = 0 THEN a ELSE Gcd(b, a % b)

Frac(n, d) ==
    LET g == Gcd(Abs(n), d)
    IN  [kind |-> "frac", n |-> n \div g, d |-> d \div g]

\* a / b: ZeroDivisionError when b is zero
Divide(a, b) == IF b = 0 THEN Raised ELSE Frac(a, b)

\* (a slip: the change is divided by old, not by abs(old))
_pct_change_signed(new, old) ==
    IF new = None \/ old = None THEN None
    ELSE IF old.n = 0
    THEN (IF new.n > 0 THEN Frac(1, 1) ELSE IF new.n < 0 THEN Frac(-1, 1) ELSE Frac(0, 1))
    ELSE IF old.n < 0 THEN Frac(old.n - new.n, -old.n)
    ELSE Frac(new.n - old.n, old.n)

_pct_change(new, old) ==
    IF new = None \/ old = None THEN None
    ELSE IF old.n = 0
    THEN (IF new.n > 0 THEN Frac(1, 1) ELSE IF new.n < 0 THEN Frac(-1, 1) ELSE Frac(0, 1))
    ELSE Divide(new.n - old.n, Abs(old.n))

PctChange ==
    /\ p_out = Pending
    /\ p_out' = _pct_change(p_new, p_old)
    /\ UNCHANGED <<p_new, p_old, f_vals, f_row, decVars, docVars, bulkVars, srvVars,
                   pipeVars, encVars, limVars, reqVars>>

(***************************************************************************)
(* build_features.build_financial_features: the net assets trajectory of   *)
(* one company.  A key the row does not get reads None here.               *)
(***************************************************************************)
\* years_data["net_assets"].dropna().values
RECURSIVE DropNa(_)
DropNa(series) ==
    IF series = <<>> THEN <<>>
    ELSE (IF Head(series) = None THEN <<>> ELSE <<Head(series).n>>) \o DropNa(Tail(series))

\* np.diff(vals)
Diff(vals) == [i \in 1..(Len(vals) - 1) |-> vals[i + 1] - vals[i]]

RECURSIVE Sum(_)
Sum(seq) == IF seq = <<>> THEN 0 ELSE Head(seq) + Sum(Tail(seq))

\* int(b) for a bool
Bit(b) == IF b THEN 1 ELSE 0

\* (a slip: every year of decline is counted, the loop never breaks)
RECURSIVE Consecutive_total(_)
Consecutive_total(changes) ==
    IF changes = <<>> THEN 0
    ELSE Bit(changes[Len(changes)] < 0)
         + Consecutive_total(SubSeq(changes, 1, Len(changes) - 1))

\* for c in reversed(changes): if c < 0: consecutive += 1 else: break
RECURSIVE Consecutive(_)
Consecutive(changes) ==
    IF changes = <<>> THEN 0
    ELSE IF changes[Len(changes)] < 0
    THEN 1 + Consecutive(SubSeq(changes, 1, Len(changes) - 1))
    ELSE 0

MinBase == 100     \* if abs(vals[-2]) > 100

NoTrajectory ==
    [na_latest_change |-> None, na_avg_change |-> None, na_declining |-> None,
     na_years_declining |-> None, na_pct_change |-> None, na_accelerating |-> None,
     na_negative |-> None, na_was_positive_now_negative |-> None]

NetAssetsTrajectory(series) ==
    LET vals    == DropNa(series)
        changes == Diff(vals)
        n       == Len(changes)
    IN  IF Len(vals) < 2 THEN NoTrajectory
        ELSE [na_latest_change   |-> Num(changes[n]),
              na_avg_change      |-> Frac(Sum(changes), n),
              na_declining       |-> Num(Bit(changes[n] < 0)),
              na_years_declining |-> Num(Consecutive(changes)),
              na_pct_change      |-> IF Abs(vals[Len(vals) - 1]) > MinBase
                                     THEN Frac(changes[n] * 100, Abs(vals[Len(vals) - 1]))
                                     ELSE Frac(0, 1),
              na_accelerating    |-> IF n >= 2
                                     THEN Num(Bit(changes[n] < changes[n - 1]))
                                     ELSE None,
              na_negative        |-> Num(Bit(vals[Len(vals)] < 0)),
              na_was_positive_now_negative |->
                  Num(Bit(vals[Len(vals)] < 0 /\ vals[1] > 0))]

BuildTrajectory ==
    /\ f_row = Pending
    /\ f_row' = NetAssetsTrajectory(f_vals)
    /\ UNCHANGED <<p_new, p_old, p_out, f_vals, decVars, docVars, bulkVars, srvVars,
                   pipeVars, encVars, limVars, reqVars>>

(***************************************************************************)
(* Families of documents.                                                  *)
(***************************************************************************)
DigitChar(i) ==
    CASE i = 0 -> "0" [] i = 1 -> "1" [] i = 2 -> "2" [] i = 3 -> "3"
      [] i = 4 -> "4" [] i = 5 -> "5" [] i = 6 -> "6" [] i = 7 -> "7"
      [] i = 8 -> "8" [] i = 9 -> "9"

\* n written with k decimal digits
RECURSIVE Dec(_, _)
Dec(n, k) == IF k = 0 THEN <<>> ELSE Dec(n \div 10, k - 1) \o <<DigitChar(n % 10)>>

\* "YYYY-MM-DD"
DateStr(y, m, d) == Dec(y, 4) \o <<"-">> \o Dec(m, 2) \o <<"-">> \o Dec(d, 2)

DurationBlock(id, start, end) ==
    [id |-> id, period |-> TRUE, start |-> start, end |-> end,
     instant |-> Missing, segment |-> "none"]

InstantBlock(id, date) ==
    [id |-> id, period |-> TRUE, start |-> Missing, end |-> Missing,
     instant |-> date, segment |-> "none"]

Tag(name, ctx, text, scale) ==
    [kind |-> "nonFraction", name |-> name, ctx |-> ctx, text |-> text,
     scale |-> scale, sign |-> ""]

\* a file of the bulk download: Prod224_0001_00012345_20231231.html, 4000
\* characters long, nothing about the company in its head
PlainFile ==
    [path   |-> <<"P", "r", "o", "d", "2", "2", "4", "_", "0", "0", "0", "1", "_",
                 "0", "0", "0", "1", "2", "3", "4", "5", "_",
                 "2", "0", "2", "3", "1", "2", "3", "1", ".", "h", "t", "m", "l">>,
     head   |-> <<>>,
     length |-> 4000]

SeqsUpTo(S, k) == UNION {[1..n -> S] : n \in 0..k}

\* The series family: up to MaxPeriods period-end dates, the second and the
\* third in the same year, each with an instant context of its own that
\* carries nothing, net assets only, or net assets and cash.
SeriesDate(k) ==
    IF k = 1 THEN DateStr(2024, 12, 31)
    ELSE IF k = 2 THEN DateStr(2023, 12, 31)
    ELSE IF k = 3 THEN DateStr(2023, 6, 30)
    ELSE DateStr(2026 - k, 12, 31)

SeriesCtx(k) == <<"c", DigitChar(k)>>

T_NetAssets == <<"Net", "Assets">>
T_Cash == <<"uk", ":", "Cash", "Bank", "In", "Hand">>

Bundle(b, k) ==
    CASE b = 0 -> <<>>
      [] b = 1 -> <<Tag(T_NetAssets, SeriesCtx(k), Dec(k, 1), Missing)>>
      [] b = 2 -> <<Tag(T_NetAssets, SeriesCtx(k), Dec(k, 1), Missing),
                    Tag(T_Cash, SeriesCtx(k), <<"5">>, <<"3">>)>>

RECURSIVE Bundles(_, _)
Bundles(choice, k) ==
    IF k = 0 THEN <<>> ELSE Bundles(choice, k - 1) \o Bundle(choice[k], k)

SeriesDocs ==
    {[ctxs |-> [k \in 1..MaxPeriods |-> InstantBlock(SeriesCtx(k), SeriesDate(k))],
      tags |-> Bundles(choice, MaxPeriods),
      file |-> PlainFile] :
        choice \in [1..MaxPeriods -> 0..2]}

InitSeries ==
    /\ \E doc \in SeriesDocs : DocStart(doc, "call", "idle")
    /\ DecIdle

SpecSeries == InitSeries /\ [][NextExtract \/ ReduceAgain]_vars

(***************************************************************************)
(* The year 2023 family: a duration context 2023-01-01 -> 2023-12-31 and   *)
(* an instant context whose date is that end date or a year earlier, with  *)
(* up to MaxTags tags drawn from a pool.  Either entry point is called on  *)
(* a document of the totals pool, extract_financials_from_ixbrl on one of  *)
(* the scenario pool.                                                      *)
(***************************************************************************)
D1 == <<"d", "1">>
I1 == <<"i", "1">>
YearStart == DateStr(2023, 1, 1)
YearEnd == DateStr(2023, 12, 31)
YearBefore == DateStr(2022, 12, 31)

T_TotalAssets == <<"Total", "Assets">>
T_FixedAssets == <<"uk", ":", "Fixed", "Assets">>
T_Turnover == <<"Turnover">>

Text_5 == <<"5">>
Text_7 == <<"7">>
Text_1234 == <<"1", ",", "2", "3", "4">>
Text_500 == <<"(", "5", "0", "0", ")">>

\* total assets on either context and fixed assets on the instant context,
\* with one of two figures
TotalsPool ==
    {Tag(T_TotalAssets, ctx, text, Missing) : ctx \in {D1, I1}, text \in {Text_5, Text_7}}
    \cup {Tag(T_FixedAssets, I1, text, Missing) : text \in {Text_5, Text_7}}

\* turnover and net assets, on either context, as "1,234" in thousands or as
\* "(500)" with no scale
ScenarioPool ==
    {Tag(name, ctx, Text_1234, <<"3">>) : name \in {T_Turnover, T_NetAssets}, ctx \in {D1, I1}}
    \cup {Tag(name, ctx, Text_500, Missing) : name \in {T_Turnover, T_NetAssets}, ctx \in {D1, I1}}

YearDocs(pool, instants, k) ==
    {[ctxs |-> <<DurationBlock(D1, YearStart, YearEnd), InstantBlock(I1, date)>>,
      tags |-> tags,
      file |-> PlainFile] :
        date \in instants, tags \in SeqsUpTo(pool, k)}

InitYear ==
    /\ \/ \E doc \in YearDocs(TotalsPool, {YearEnd}, MaxTags) :
              DocStart(doc, "call", "idle") \/ DocStart(doc, "idle", "open")
       \/ \E doc \in YearDocs(ScenarioPool, {YearEnd, YearBefore}, MaxTags - 1) :
              DocStart(doc, "call", "idle")
    /\ DecIdle

SpecYear == InitYear /\ [][NextExtract \/ NextBulk]_vars

(***************************************************************************)
(* The balance sheet family: a duration and an instant context for 2023, a *)
(* duration context for 2022, and for each slot of a fixed list of         *)
(* concepts either no tag or one tag with one of the slot's texts.         *)
(***************************************************************************)
D0 == <<"d", "0">>

T_CurrentAssets == <<"Current", "Assets">>
T_CurrentLiabilities == <<"Creditors", "Due", "Within", "One", "Year">>
T_NonCurrentLiabilities == <<"Creditors", "Due", "After", "One", "Year">>
T_TotalLiabilities == <<"Total", "Liabilities">>
T_Employees == <<"Employees", "Total">>

Text_0 == <<"0">>
Text_12 == <<"1", "2">>
Text_120000 == <<"1", "2", "0", ",", "0", "0", "0">>
Text_45000 == <<"4", "5", ",", "0", "0", "0">>

Slots ==
    << [name |-> T_FixedAssets,           ctx |-> I1, texts |-> {Text_0, Text_120000, Text_45000}],
       [name |-> T_CurrentAssets,         ctx |-> I1, texts |-> {Text_0, Text_45000}],
       [name |-> T_TotalAssets,           ctx |-> I1, texts |-> {Text_7}],
       [name |-> T_CurrentLiabilities,    ctx |-> I1, texts |-> {Text_0, Text_45000}],
       [name |-> T_NonCurrentLiabilities, ctx |-> I1, texts |-> {Text_0, Text_120000}],
       [name |-> T_TotalLiabilities,      ctx |-> I1, texts |-> {Text_7}],
       [name |-> T_NetAssets,             ctx |-> I1, texts |-> {Text_500}],
       [name |-> T_Employees,             ctx |-> D0, texts |-> {Text_12}] >>

\* the tag sequences that fill the first k slots
RECURSIVE SlotTags(_)
SlotTags(k) ==
    IF k = 0 THEN {<<>>}
    ELSE LET slot == Slots[k]
         IN  SlotTags(k - 1)
             \cup {Append(tags, Tag(slot.name, slot.ctx, text, Missing)) :
                      tags \in SlotTags(k - 1), text \in slot.texts}

SheetDocs ==
    {[ctxs |-> <<DurationBlock(D1, YearStart, YearEnd), InstantBlock(I1, YearEnd),
                 DurationBlock(D0, DateStr(2022, 1, 1), YearBefore)>>,
      tags |-> tags,
      file |-> PlainFile] :
        tags \in SlotTags(Len(Slots))}

InitSheet ==
    /\ \E doc \in SheetDocs : DocStart(doc, "call", "idle")
    /\ DecIdle

SpecSheet == InitSheet /\ [][NextExtract]_vars

(***************************************************************************)
(* The creditors family: the duration and the instant context of 2023, net *)
(* assets of (500) on the instant context, and up to MaxTags - 1 further   *)
(* tags in any order: creditors due within one year under one of the names *)
(* of the concept table, or non-current liabilities, on either context,    *)
(* as "1,234" in thousands or as "(500)".                                  *)
(***************************************************************************)
T_CreditorAmounts == <<"Creditor", "Amounts", "Falling", "Due", "Within", "One", "Year">>
T_Liabilities == <<"Current", "Liabilities">>
T_LongLiabilities == <<"Non", "Current", "Liabilities">>

CreditorNames == {T_CurrentLiabilities, T_CreditorAmounts, T_Liabilities, T_LongLiabilities}

CreditorPool ==
    {Tag(name, ctx, Text_1234, <<"3">>) : name \in CreditorNames, ctx \in {D1, I1}}
    \cup {Tag(name, ctx, Text_500, Missing) : name \in CreditorNames, ctx \in {D1, I1}}

CreditorDocs ==
    {[ctxs |-> <<DurationBlock(D1, YearStart, YearEnd), InstantBlock(I1, YearEnd)>>,
      tags |-> tags \o <<Tag(T_NetAssets, I1, Text_500, Missing)>>,
      file |-> PlainFile] :
        tags \in SeqsUpTo(CreditorPool, MaxTags - 1)}

InitCreditors ==
    /\ \E doc \in CreditorDocs : DocStart(doc, "call", "idle")
    /\ DecIdle

SpecCreditors == InitCreditors /\ [][NextExtract]_vars

(***************************************************************************)
(* The filings family: the company SC123456 with up to MaxFilings accounts *)
(* filings, each without a document link, with a download that fails, as a *)
(* PDF, or as iXBRL: an empty body, a document of the series family for    *)
(* 2023-12-31 with net assets alone or with cash or for 2023-06-30 with    *)
(* both, or a document with a scale no float can hold.  The fallback       *)
(* service knows nothing or one record for 2021.  Requests name the        *)
(* company in lower case after a space, in upper case, or give a number    *)
(* Companies House does not know.                                          *)
(***************************************************************************)
MaxFilings == 2

SC123456 == <<"S", "C", "1", "2", "3", "4", "5", "6">>

RawNumbers ==
    {<<" ", "s", "c", "1", "2", "3", "4", "5", "6">>,
     SC123456,
     <<"0", "0", "0", "0", "0", "0", "0", "0">>}

FilingDoc(k, b) ==
    [ctxs |-> <<InstantBlock(SeriesCtx(k), SeriesDate(k))>>,
     tags |-> Bundle(b, k),
     file |-> NoFile]

OverflowDoc ==
    [ctxs |-> <<InstantBlock(SeriesCtx(1), SeriesDate(1))>>,
     tags |-> <<Tag(T_NetAssets, SeriesCtx(1), Text_5, <<"4", "0", "0">>)>>,
     file |-> NoFile]

Ixbrl(doc) ==
    [link |-> TRUE, content |-> "bytes", content_type |-> "application/xhtml+xml",
     doc |-> doc]

FilingPool ==
    {[link |-> FALSE, content |-> "none", content_type |-> "none", doc |-> NoDoc],
     [link |-> TRUE, content |-> "none", content_type |-> "none", doc |-> NoDoc],
     [link |-> TRUE, content |-> "bytes", content_type |-> "application/pdf",
      doc |-> FilingDoc(2, 2)],
     [link |-> TRUE, content |-> "empty", content_type |-> "application/xhtml+xml",
      doc |-> NoDoc],
     Ixbrl(OverflowDoc)}
    \cup {Ixbrl(FilingDoc(2, 1)), Ixbrl(FilingDoc(2, 2)), Ixbrl(FilingDoc(3, 2))}

FallbackRecord ==
    [period_end |-> DateStr(2021, 12, 31),
     year       |-> <<"2", "0", "2", "1">>,
     v          |-> [f \in FieldSet |-> IF f = "net_assets" THEN Num(9) ELSE None]]

Companies ==
    {[number |-> SC123456, sic_codes |-> sic, filings |-> filings, fallback |-> fallback] :
        sic \in {<<>>, <<"62012">>},
        filings \in SeqsUpTo(FilingPool, MaxFilings),
        fallback \in {<<>>, <<FallbackRecord>>}}

InitServer ==
    /\ ch \in Companies
    /\ _company_cache = {}
    /\ response = NoResponse
    /\ DecIdle
    /\ DocIdle
    /\ BulkIdle
    /\ OthersIdle

NextServer ==
    \/ \E raw \in RawNumbers, fails \in BOOLEAN : company(raw, fails)
    \/ clear_cache

SpecServer == InitServer /\ [][NextServer]_vars

(***************************************************************************)
(* The requests family: the company SC123456 with a SIC code, a fallback   *)
(* record and at most one filing; up to MaxThreads requests at a time for  *)
(* the numbers of RawNumbers, and /api/cache/clear between any two of      *)
(* their statements.                                                       *)
(***************************************************************************)
RequestCompanies ==
    {c \in Companies : Len(c.filings) <= 1 /\ c.sic_codes # <<>> /\ c.fallback # <<>>}

InitRequests ==
    /\ ch \in RequestCompanies
    /\ _company_cache = {}
    /\ response = NoResponse
    /\ ReqIdle
    /\ DecIdle
    /\ DocIdle
    /\ BulkIdle
    /\ PipeIdle
    /\ EncIdle
    /\ LimIdle
    /\ TrendIdle

NextRequests ==
    \/ \E t \in Threads :
           \/ \E raw \in RawNumbers : Begin(t, raw)
           \/ Lookup(t)
           \/ ReturnCached(t)
           \/ \E fails \in BOOLEAN : Fetch(t, fails)
           \/ Store(t)
    \/ clear_cache

SpecRequests == InitRequests /\ [][NextRequests]_vars

(***************************************************************************)
(* The change family: _pct_change on every pair of a missing figure or one *)
(* of nine figures of either sign.                                         *)
(***************************************************************************)
FigureSet == {None} \cup {Num(k) : k \in {-400, -100, -3, 0, 1, 3, 100, 250, 1000}}

InitChange ==
    /\ p_new \in FigureSet
    /\ p_old \in FigureSet
    /\ p_out = Pending
    /\ f_vals = <<>>
    /\ f_row = Pending
    /\ DecIdle
    /\ DocIdle
    /\ BulkIdle
    /\ ServerIdle
    /\ PipeIdle
    /\ EncIdle
    /\ LimIdle
    /\ ReqIdle

SpecChange == InitChange /\ [][PctChange]_vars

(***************************************************************************)
(* The trajectory family: a company with up to MaxYears years of accounts, *)
(* in year order, each year with no net assets figure or with one of four. *)
(***************************************************************************)
NetAssetsSet == {None} \cup {Num(k) : k \in {-200, 0, 150, 300}}

InitTrajectory ==
    /\ f_vals \in SeqsUpTo(NetAssetsSet, MaxYears)
    /\ f_row = Pending
    /\ p_new = None
    /\ p_old = None
    /\ p_out = Pending
    /\ DecIdle
    /\ DocIdle
    /\ BulkIdle
    /\ ServerIdle
    /\ PipeIdle
    /\ EncIdle
    /\ LimIdle
    /\ ReqIdle

SpecTrajectory == InitTrajectory /\ [][BuildTrajectory]_vars

(***************************************************************************)
(* The references family: an instant context for 2023-12-31, a second one  *)
(* with a dimension, a context whose period has an end marker only, and up *)
(* to MaxTags tags for net assets or cash that name one of the three or a  *)
(* context the document does not have.  The figure tells the context.      *)
(***************************************************************************)
S1 == <<"s", "1">>
N1 == <<"n", "1">>
Z1 == <<"z", "1">>

RefText(ctx) ==
    CASE ctx = I1 -> <<"5">> [] ctx = S1 -> <<"7">> [] ctx = N1 -> <<"8">> [] ctx = Z1 -> <<"9">>

RefCtxs ==
    << InstantBlock(I1, YearEnd),
       [InstantBlock(S1, YearEnd) EXCEPT !.segment = "member"],
       [id |-> N1, period |-> TRUE, start |-> Missing, end |-> YearEnd,
        instant |-> Missing, segment |-> "none"] >>

RefPool ==
    {Tag(name, ctx, RefText(ctx), Missing) :
        name \in {T_NetAssets, T_Cash}, ctx \in {I1, S1, N1, Z1}}

RefDocs ==
    {[ctxs |-> RefCtxs, tags |-> tags, file |-> PlainFile] : tags \in SeqsUpTo(RefPool, MaxTags)}

InitRefs ==
    /\ \E doc \in RefDocs : DocStart(doc, "call", "idle")
    /\ DecIdle

SpecRefs == InitRefs /\ [][NextExtract]_vars

(***************************************************************************)
(* The names family: the duration and the instant context of 2023 and one  *)
(* tag on the instant context with the figure 5, whose name is a concept   *)
(* of either concept table as it stands, with a namespace prefix, with a   *)
(* word in front of it, or in another case.  Either entry point is called. *)
(***************************************************************************)
Range(seq) == {seq[i] : i \in 1..Len(seq)}

TableNames ==
    UNION {Range(CONCEPT_MAP(f)) : f \in FieldNames}
    \cup UNION {Range(BULK_CONCEPT_MAP[i][2]) : i \in 1..Len(BULK_CONCEPT_MAP)}

NamePool ==
    {prefix \o name : prefix \in {<<>>, <<"uk", ":">>, <<"Foo">>}, name \in TableNames}
    \cup {<<"Foo">>, <<"TOTAL", "ASSETS">>, <<"uk", ":", "turnover">>}

NameDocs ==
    {[ctxs |-> <<DurationBlock(D1, YearStart, YearEnd), InstantBlock(I1, YearEnd)>>,
      tags |-> <<Tag(name, I1, Text_5, Missing)>>,
      file |-> PlainFile] :
        name \in NamePool}

InitNames ==
    /\ \E doc \in NameDocs : DocStart(doc, "call", "idle") \/ DocStart(doc, "idle", "open")
    /\ DecIdle

SpecNames == InitNames /\ [][NextExtract \/ NextBulk]_vars

(***************************************************************************)
(* The files family: one balance sheet of 2023 with two figures, stored    *)
(* under one of several file names, with up to MaxPlaces places in the     *)
(* head of its content where a company number may stand.  The bulk parser  *)
(* is called on it.                                                        *)
(***************************************************************************)
MaxPlaces == 2

\* Prod224_1_00012345_20231231.html
Path_Prod224 ==
    <<"P", "r", "o", "d", "2", "2", "4", "_", "1", "_",
      "0", "0", "0", "1", "2", "3", "4", "5", "_",
      "2", "0", "2", "3", "1", "2", "3", "1", ".", "h", "t", "m", "l">>

\* 123456789_00012345_.html: the first run of 8 digits is not the token
\* between underscores
Path_TwoRuns ==
    <<"1", "2", "3", "4", "5", "6", "7", "8", "9", "_",
      "0", "0", "0", "1", "2", "3", "4", "5", "_", ".", "h", "t", "m", "l">>

\* acc_123456789.html: a run of 9 digits, no token between underscores
Path_NineDigits ==
    <<"a", "c", "c", "_", "1", "2", "3", "4", "5", "6", "7", "8", "9",
      ".", "h", "t", "m", "l">>

\* 20231231/acc.html: 8 digits in the directory only
Path_DatedDir ==
    <<"2", "0", "2", "3", "1", "2", "3", "1", "/", "a", "c", "c",
      ".", "h", "t", "m", "l">>

\* acc.html
Path_Bare == <<"a", "c", "c", ".", "h", "t", "m", "l">>

PathPool == {Path_Prod224, Path_TwoRuns, Path_NineDigits, Path_DatedDir, Path_Bare}

Place(label, sep, digits, next) ==
    [label |-> label, sep |-> sep, digits |-> digits, next |-> next]

PlacePool ==
    { Place(<<"Company", "Number">>, <<":", " ">>, <<"1", "2", "3", "4", "5", "6">>, " "),
      Place(<<"company", "number">>, <<" ">>, <<"5", "5", "5", "5", "5", "5", "5">>, "<"),
      Place(<<"Company", "Number">>, <<>>, <<"1", "1", "1", "1", "1", "1">>, " "),
      Place(<<"Company", "Number">>, <<">">>, <<"1", "2", "3", "4", "5">>, "<"),
      Place(<<"Company", "Number">>, <<":">>,
            <<"9", "8", "7", "6", "5", "4", "3", "2", "1">>, " "),
      Place(<<"UK", "Companies", "House", "Registered", "Number">>, <<">">>,
            <<"7", "6", "5", "4", "3", "2", "1">>, "<"),
      Place(<<"identifier">>, <<">">>, <<"0", "0", "9", "9", "9", "9", "9", "9">>, "<"),
      Place(<<"identifier">>, <<">">>, <<"3", "3", "3", "3", "3", "3">>, " "),
      Place(<<"identifier">>, <<">">>,
            <<"1", "2", "3", "4", "5", "6", "7", "8", "9">>, "<") }

FileDocs ==
    {[ctxs |-> <<DurationBlock(D1, YearStart, YearEnd), InstantBlock(I1, YearEnd)>>,
      tags |-> <<Tag(T_TotalAssets, I1, Text_5, Missing),
                 Tag(T_FixedAssets, I1, Text_7, Missing)>>,
      file |-> [path |-> path, head |-> head, length |-> 4000]] :
        path \in PathPool, head \in SeqsUpTo(PlacePool, MaxPlaces)}

InitFiles ==
    /\ \E doc \in FileDocs : DocStart(doc, "idle", "open")
    /\ DecIdle

SpecFiles == InitFiles /\ [][NextBulk]_vars

(***************************************************************************)
(* The batch family: up to MaxFiles files, each one of: two balance sheets *)
(* of 2023 with a company number (in the file name, in the content head),  *)
(* the same balance sheet with no company number anywhere, one whose       *)
(* second figure has a scale no float can hold, and one of 300 characters. *)
(***************************************************************************)
MaxFiles == 3

Scale_400 == <<"4", "0", "0">>

Sheet2023(path, head, length, text_a, text_b, scale_b) ==
    [ctxs |-> <<DurationBlock(D1, YearStart, YearEnd), InstantBlock(I1, YearEnd)>>,
     tags |-> <<Tag(T_TotalAssets, I1, text_a, Missing),
                Tag(T_FixedAssets, I1, text_b, scale_b)>>,
     file |-> [path |-> path, head |-> head, length |-> length]]

File_Named == Sheet2023(Path_Prod224, <<>>, 4000, Text_5, Text_7, Missing)

File_Headed ==
    Sheet2023(Path_Bare,
              <<Place(<<"Company", "Number">>, <<":", " ">>,
                      <<"1", "2", "3", "4", "5", "6">>, " ")>>,
              4000, Text_7, Text_5, Missing)

File_Unidentified == Sheet2023(Path_Bare, <<>>, 4000, Text_5, Text_7, Missing)

File_Overflow == Sheet2023(Path_TwoRuns, <<>>, 4000, Text_5, Text_7, Scale_400)

File_Small == Sheet2023(Path_Prod224, <<>>, 300, Text_5, Text_7, Missing)

BatchPool == {File_Named, File_Headed, File_Unidentified, File_Overflow, File_Small}

InitBatch ==
    /\ a_pc = "scan"
    /\ a_files \in SeqsUpTo(BatchPool, MaxFiles)
    /\ a_batches = <<>>
    /\ a_pending = {}
    /\ a_queue = <<>>
    /\ a_rows = <<>>
    /\ a_parsed_count = 0
    /\ a_failed_count = 0
    /\ a_out = <<>>
    /\ DecIdle
    /\ DocIdle
    /\ BulkIdle
    /\ ServerIdle
    /\ EncIdle
    /\ LimIdle
    /\ ReqIdle
    /\ TrendIdle

SpecBatch == InitBatch /\ [][NextPipeline]_vars

(***************************************************************************)
(* The stream family: the files of one directory, each at most once and in *)
(* any order, as many as make three batches: for company 00012345 a        *)
(* balance sheet of 2023-12-31 with two figures, one with three, one of    *)
(* 2023-06-30 and one of 1999-12-31, and for company 00123456 one of       *)
(* 2023-12-31.                                                             *)
(***************************************************************************)
DatedSheet(path, head, date, tags) ==
    [ctxs |-> <<DurationBlock(D1, YearStart, YearEnd), InstantBlock(I1, date)>>,
     tags |-> tags,
     file |-> [path |-> path, head |-> head, length |-> 4000]]

TwoFigures ==
    <<Tag(T_TotalAssets, I1, Text_5, Missing), Tag(T_FixedAssets, I1, Text_7, Missing)>>

File_Fuller ==
    DatedSheet(Path_Prod224, <<>>, YearEnd,
               TwoFigures \o <<Tag(T_NetAssets, I1, Text_500, Missing)>>)

File_HalfYear == DatedSheet(Path_Prod224, <<>>, DateStr(2023, 6, 30), TwoFigures)

File_Old == DatedSheet(Path_Prod224, <<>>, DateStr(1999, 12, 31), TwoFigures)

StreamPool == {File_Named, File_Fuller, File_HalfYear, File_Old, File_Headed}

Distinct(seq) == \A i, j \in 1..Len(seq) : seq[i] = seq[j] => i = j

InitStream ==
    /\ a_pc = "scan"
    /\ a_files \in {files \in SeqsUpTo(StreamPool, 2 * BatchSize + 1) : Distinct(files)}
    /\ a_batches = <<>>
    /\ a_pending = {}
    /\ a_queue = <<>>
    /\ a_rows = <<>>
    /\ a_parsed_count = 0
    /\ a_failed_count = 0
    /\ a_out = <<>>
    /\ DecIdle
    /\ DocIdle
    /\ BulkIdle
    /\ ServerIdle
    /\ EncIdle
    /\ LimIdle
    /\ ReqIdle
    /\ TrendIdle

SpecStream == InitStream /\ [][NextPipeline]_vars

(***************************************************************************)
(* The encodings family: every content of up to MaxBytes bytes drawn from  *)
(* "A", the latin-1 "e acute" (a lead byte of three in UTF-8) and the two  *)
(* bytes of the UTF-8 "e acute", under each declared encoding of a pool    *)
(* that holds one name no codec has.                                       *)
(***************************************************************************)
MaxBytes == 3

BytePool == {65, 233, 195, 169}

EncodingPool == {"utf-8", "latin-1", "ascii", "utf-9"}

InitEncodings ==
    /\ e_content \in SeqsUpTo(BytePool, MaxBytes)
    /\ e_encoding \in EncodingPool
    /\ e_out = Pending
    /\ DecIdle
    /\ DocIdle
    /\ BulkIdle
    /\ ServerIdle
    /\ PipeIdle
    /\ LimIdle
    /\ ReqIdle
    /\ TrendIdle

\* parse_ixbrl, the  if isinstance(content, bytes)  block
DecodeBytes ==
    /\ e_out = Pending
    /\ e_out' = DecodeContent(e_content, e_encoding)
    /\ UNCHANGED <<e_content, e_encoding, decVars, docVars, bulkVars, srvVars,
                   pipeVars, limVars, reqVars, trendVars>>

SpecEncodings == InitEncodings /\ [][DecodeBytes]_vars

(***************************************************************************)
(* The limits family: scores on either side of every threshold, no record, *)
(* one record or two records with each of a few figures present or not,    *)
(* and every shape of the insolvency data.                                 *)
(***************************************************************************)
ScorePool ==
    {Norm(0, 0), Norm(199, 1), Norm(20, 0), Norm(349, 1), Norm(35, 0), Norm(499, 1),
     Norm(50, 0), Norm(649, 1), Norm(65, 0), Norm(799, 1), Norm(80, 0), Norm(100, 0)}

FigurePool ==
    [net_assets   : {None, Norm(-4000, 0), Norm(80000, 0), Norm(1234567, 2)},
     total_assets : {None, Norm(0, 0), Norm(250000, 0)},
     cash         : {None, Norm(3000, 0), Norm(4000000, 0)}]

InsolvencyPool ==
    [has_active_case : {"", "False", "True"},
     cases           : {Missing, <<>>, <<"case">>}]

InitLimits ==
    /\ l_score \in ScorePool
    /\ l_financials \in {<<>>} \cup {<<f>> : f \in FigurePool}
                        \cup {<<f, f>> : f \in FigurePool}
    /\ l_insolvency \in InsolvencyPool
    /\ l_out = Pending
    /\ DecIdle
    /\ DocIdle
    /\ BulkIdle
    /\ ServerIdle
    /\ PipeIdle
    /\ EncIdle
    /\ ReqIdle
    /\ TrendIdle

CalcLimit ==
    /\ l_out = Pending
    /\ l_out' = calc_credit_limit(l_score, l_financials, l_insolvency)
    /\ UNCHANGED <<l_score, l_financials, l_insolvency, decVars, docVars, bulkVars,
                   srvVars, pipeVars, encVars, reqVars, trendVars>>

SpecLimits == InitLimits /\ [][CalcLimit]_vars

(***************************************************************************)
(* The contexts family: up to MaxBlocks context blocks, each a duration or *)
(* an instant of 2023, a period with all three markers, with a start and   *)
(* an instant, with a start only, with an end only, with no marker, a      *)
(* block without period, one without id, or a dimensioned instant; and one *)
(* total assets figure on the instant context.                             *)
(***************************************************************************)
MaxBlocks == 2

Block(id, period, start, end, instant, segment) ==
    [id |-> id, period |-> period, start |-> start, end |-> end,
     instant |-> instant, segment |-> segment]

BlockPool ==
    { DurationBlock(D1, YearStart, YearEnd),
      InstantBlock(I1, YearEnd),
      Block(D1, TRUE, YearStart, YearEnd, YearBefore, "none"),
      Block(I1, TRUE, YearStart, Missing, YearEnd, "none"),
      Block(D1, TRUE, YearStart, Missing, Missing, "none"),
      Block(I1, TRUE, Missing, YearEnd, Missing, "none"),
      Block(D1, TRUE, Missing, Missing, Missing, "none"),
      Block(I1, FALSE, Missing, Missing, Missing, "none"),
      Block(<<>>, TRUE, Missing, Missing, YearEnd, "none"),
      Block(I1, TRUE, Missing, Missing, YearEnd, "member") }

ContextDocs ==
    {[ctxs |-> ctxs,
      tags |-> <<Tag(T_TotalAssets, I1, Text_5, Missing)>>,
      file |-> PlainFile] :
        ctxs \in SeqsUpTo(BlockPool, MaxBlocks)}

InitContexts ==
    /\ \E doc \in ContextDocs : DocStart(doc, "call", "idle")
    /\ DecIdle

SpecContexts == InitContexts /\ [][NextExtract]_vars

NextDecode == DecodeSingle \/ DecodeBulk

SpecDecode == InitDecode /\ [][NextDecode]_vars

(***************************************************************************)
(* Properties of the numeric decoders (checked under SpecDecode).          *)
(***************************************************************************)
HasBrackets(text) == "(" \in Chars(text) /\ ")" \in Chars(text)

\* the text with everything but digits, "." and "-" taken out
CleanedText(text) == Keep(text, Digits \cup {".", "-"})

\* the figure the text and scale denote, with no negative indicator at all:
\* the decoding of the text without its brackets under an empty sign marker
Figure1(text, scale_str) == _parse_value(Remove(text, {"(", ")"}), scale_str, "")
Figure2(text, scale_str) == parse_value(Remove(text, {"(", ")"}), scale_str, "")

\* C1: in both decoders, when the sign marker is "-" or the text holds both
\* "(" and ")", a decoded number is minus the absolute value of the parsed,
\* scaled figure, hence never positive, whatever other negative indicator
\* (sign marker, brackets, literal minus) is present as well.
C1_ForcedNegative ==
    (d_sign = "-" \/ HasBrackets(d_text)) =>
        /\ IsNum(d_single) =>
              /\ d_single.n <= 0
              /\ d_single = NegAbs(Figure1(d_text, d_scale))
        /\ IsNum(d_bulk) =>
              /\ d_bulk.n <= 0
              /\ d_bulk = NegAbs(Figure2(d_text, d_scale))

\* bracketed text under the sign marker "-": two negative indicators, decoded
\* by both decoders to -5000
C1_Witness ==
    /\ d_text = <<"(", "5", ")">> /\ d_sign = "-" /\ d_scale = <<"3">>
    /\ d_single = Num(-5000) /\ d_bulk = Num(-5000)

\* the case C2 is about: text that parses, an integer scale, no sign marker,
\* no brackets, decoded by _parse_value
C2_Case ==
    /\ d_single # Pending
    /\ d_sign = "" /\ ~HasBrackets(d_text)
    /\ FloatOk(CleanedText(d_text))
    /\ IntOk(d_scale)

Sign(i) == IF i > 0 THEN 1 ELSE IF i < 0 THEN -1 ELSE 0

Reduced == x_pc \in {"deduped", "done", "reduced again"}

Returned_ == x_pc \in {"done", "reduced again"}

\* the candidates of a year, as places of results
Candidates(yr) == {i \in 1..Len(x_results) : x_results[i].year = yr}

\* the first candidate of the year whose count is the year's greatest
FirstFullest(yr) ==
    CHOOSE i \in Candidates(yr) :
        /\ \A j \in Candidates(yr) : NonNullCount(x_results[j]) <= NonNullCount(x_results[i])
        /\ \A j \in Candidates(yr) :
              j < i => NonNullCount(x_results[j]) < NonNullCount(x_results[i])

\* C6: once by_year is filled, every year of the candidate records has
\* exactly one record in it; that record's count of non-null values is the
\* greatest among the year's candidates, and it is the first encountered of
\* the candidates that reach that count.
C6_KeepsFullestFirst ==
    Reduced =>
        \A i \in 1..Len(x_results) :
            LET yr   == x_results[i].year
                kept == {k \in 1..Len(x_by_year) : x_by_year[k].year = yr}
            IN  /\ Cardinality(kept) = 1
                /\ \A k \in kept :
                      /\ NonNullCount(x_by_year[k]) >= NonNullCount(x_results[i])
                      /\ x_by_year[k] = x_results[FirstFullest(yr)]

\* three years hold candidates; in one of them the second candidate beat the
\* first (more values), and the returned series was cut to 4
C6_Witness ==
    /\ Reduced
    /\ \E i, j \in 1..Len(x_results) :
          /\ i < j /\ x_results[i].year = x_results[j].year
          /\ NonNullCount(x_results[j]) > NonNullCount(x_results[i])
          /\ \E k \in 1..Len(x_by_year) : x_by_year[k] = x_results[j]
    /\ Len(x_by_year) >= 3

Years(rs) == {rs[i].year : i \in 1..Len(rs)}

\* C8: the returned series has strictly decreasing (hence pairwise
\* distinct) years and at most 4 entries; its records are retained
\* candidates; no retained candidate's year is newer than a listed year
\* without being listed itself; every record's year is the first 4
\* characters of its period_end.
C8_NewestFourYears ==
    Returned_ =>
        /\ Len(x_out) <= SeriesLen
        /\ \A i, j \in 1..Len(x_out) : i < j => StrLess(x_out[j].year, x_out[i].year)
        /\ \A i \in 1..Len(x_out) :
              /\ \E k \in 1..Len(x_results) : x_results[k] = x_out[i]
              /\ x_out[i].year = Prefix(x_out[i].period_end, 4)
        /\ \A k \in 1..Len(x_results) :
              \/ x_results[k].year \in Years(x_out)
              \/ /\ Len(x_out) = SeriesLen
                 /\ \A i \in 1..Len(x_out) : StrLess(x_results[k].year, x_out[i].year)

\* six candidates in five years: the series lists the newest four years
C8_Witness ==
    /\ Returned_
    /\ Len(x_results) >= 6
    /\ Cardinality(Years(x_results)) >= 5
    /\ Len(x_out) = SeriesLen

\* C9: run on a list that is its own output, the reducer (the extractor's,
\* and the handler's) returns the same list: same records, same order.
C9_Idempotent ==
    x_pc = "reduced again" =>
        /\ x_again.parser = x_out
        /\ x_again.server = x_out

C9_Witness ==
    /\ x_pc = "reduced again"
    /\ Len(x_out) = SeriesLen
    /\ Len(x_results) > Len(x_by_year)
    /\ Len(x_by_year) > SeriesLen
    /\ x_again.parser = x_out

(***************************************************************************)
(* Properties of record building (checked under SpecYear and SpecSheet).   *)
(***************************************************************************)
Least(S) == CHOOSE i \in S : \A j \in S : i <= j

\* the record of the period being built exists
Building == x_pc \in {"liabilities", "assets", "alias", "retain"}

\* the facts that qualify for a field of the period key: on a context of the
\* set, with a concept that maps to the field
Qualifying(ctx_set, field) ==
    {i \in 1..Len(x_facts) :
        x_facts[i].context_ref \in ctx_set /\ _match_concept(x_facts[i].concept, field)}

\* the value of the first qualifying fact: the first on a context of the
\* field's own kind or, when there is none, the first on any context of the
\* period; None when no fact qualifies
FirstQualifying(key, field) ==
    LET any  == DurationCtx(x_contexts, key) \cup InstantCtx(x_contexts, key)
        own  == IF field \in DurationFields THEN DurationCtx(x_contexts, key)
                ELSE InstantCtx(x_contexts, key)
        qown == Qualifying(own, field)
        qany == Qualifying(any, field)
    IN  IF qown # {} THEN x_facts[Least(qown)].value
        ELSE IF qany # {} THEN x_facts[Least(qany)].value
        ELSE None

KeepsFirst(r) ==
    \A f \in FieldSet :
        LET first == FirstQualifying(r.period_end, f)
        IN  first # None => r.v[f] = first

\* the nonFraction tags the loop of parse_ixbrl_fast has been through
Seen ==
    LET all == NonFractions(x_doc.tags)
    IN  SubSeq(all, 1, Len(all) - Len(b_todo))

\* of these, the ones that qualify for a field of a date: resolved, mapped
\* to the field, on a context of the date, with a value
BulkQualifying(date, field) ==
    {k \in 1..Len(Seen) :
        /\ BulkResolved(b_contexts, Seen[k])
        /\ BulkField(Seen[k]) = field
        /\ b_contexts[Seen[k].ctx].date = date
        /\ BulkValue(Seen[k]) # None}

BulkKeepsFirst(r) ==
    \A f \in BulkFieldSet :
        r.v[f] # None =>
            LET q == BulkQualifying(r.period_end, f)
            IN  q # {} /\ r.v[f] = BulkValue(Seen[Least(q)])

\* C3: a field of a period's record holds the value of the first qualifying
\* fact from the moment it is set: in extract_financials_from_ixbrl neither
\* a later fact nor a derivation step changes it, in the record being built
\* and in the records kept; in parse_ixbrl_fast no later tag of the loop
\* changes it, in by_period and in the returned list.
C3_FirstValueKept ==
    /\ Building => KeepsFirst(x_record)
    /\ \A i \in 1..Len(x_results) : KeepsFirst(x_results[i])
    /\ \A i \in 1..Len(x_out) : KeepsFirst(x_out[i])
    /\ b_pc \in {"tags", "done"} =>
          /\ \A i \in 1..Len(b_by_period) : BulkKeepsFirst(b_by_period[i])
          /\ \A i \in 1..Len(b_out) : BulkKeepsFirst(b_out[i])

\* parse_ixbrl_fast has returned a record whose total_assets is the 5 of the
\* first tag although a later tag of the same date gives 7
C3_Witness ==
    /\ b_pc = "done"
    /\ x_doc.tags = <<Tag(T_TotalAssets, I1, Text_5, Missing),
                      Tag(T_FixedAssets, I1, Text_7, Missing),
                      Tag(T_TotalAssets, D1, Text_7, Missing)>>
    /\ Len(b_out) = 1
    /\ b_out[1].v["total_assets"] = Num(5)
    /\ b_out[1].v["fixed_assets"] = Num(7)

ZeroIfNone(v) == IF v = None THEN Num(0) ELSE v

\* the tagged values of the period being built, before any derivation
Tagged == SelectFields(x_contexts, x_facts, x_record.period_end)

SumOfParts(target, a, b) ==
    (Tagged.v[target] = None /\ (Tagged.v[a] # None \/ Tagged.v[b] # None)) =>
        x_record.v[target] = Plus(ZeroIfNone(Tagged.v[a]), ZeroIfNone(Tagged.v[b]))

\* C4: once the derivation steps have run, a record with no tagged
\* total_assets and a tagged fixed_assets or current_assets has total_assets
\* = fixed_assets + current_assets, an untagged operand counting as zero and
\* a tagged operand counting as its value, zero included; likewise
\* total_liabilities from current_liabilities and non_current_liabilities.
C4_DerivedTotals ==
    x_pc \in {"alias", "retain"} =>
        /\ SumOfParts("total_assets", "fixed_assets", "current_assets")
        /\ SumOfParts("total_liabilities", "current_liabilities", "non_current_liabilities")

HasGatekeeper(r) ==
    \/ r.v["total_assets"] # None
    \/ r.v["net_assets"] # None
    \/ r.v["current_assets"] # None
    \/ r.v["turnover"] # None

\* a period whose only tagged field is employees
OnlyEmployees(key) ==
    LET sel == SelectFields(x_contexts, x_facts, key)
    IN  /\ sel.v["employees"] # None
        /\ \A f \in FieldSet \ {"employees"} : sel.v[f] = None

PeriodsOf(rs) == {rs[i].period_end : i \in 1..Len(rs)}

\* C5: every record extract_financials_from_ixbrl keeps, and every record it
\* returns, has at least one of total_assets, net_assets, current_assets and
\* turnover non-null; once the period loop is over, no period whose only
\* tagged field is employees is among the kept or the returned records.
C5_MinimumPresence ==
    /\ \A i \in 1..Len(x_results) : HasGatekeeper(x_results[i])
    /\ \A i \in 1..Len(x_out) : HasGatekeeper(x_out[i])
    /\ x_pc \in {"deduped", "done"} =>
          \A key \in PeriodKeys(x_contexts) :
              OnlyEmployees(key) =>
                  key \notin PeriodsOf(x_results) /\ key \notin PeriodsOf(x_out)

\* the call has returned the 2023 record alone: the 2022 period, whose only
\* tagged field is employees = 12, was dropped
C5_Witness ==
    /\ x_pc = "done"
    /\ OnlyEmployees(YearBefore)
    /\ SelectFields(x_contexts, x_facts, YearBefore).v["employees"] = Num(12)
    /\ PeriodsOf(x_out) = {YearEnd}

\* the tags of the document with a name on a context, in document order
TagsOn(name, ctx) ==
    {i \in 1..Len(x_doc.tags) : x_doc.tags[i].name = name /\ x_doc.tags[i].ctx = ctx}

\* the figure a tag of the scenario pool denotes
Expected(tag) ==
    IF tag.text = Text_1234 /\ tag.scale = <<"3">> THEN Num(1234000) ELSE Num(-500)

\* C10: when the instant context's date is the duration context's end date
\* D and the document tags turnover on the duration context and net assets
\* on the instant context, extract_financials_from_ixbrl returns exactly one
\* record, with period_end = D, year = D[0:4], turnover the figure of the
\* first such turnover tag and net_assets the figure of the first such
\* net-assets tag ("1,234" scale "3" is 1234000, "(500)" is -500).
C10_OneRecordPerDate ==
    (/\ x_pc = "done"
     /\ x_doc.ctxs[2].instant = x_doc.ctxs[1].end
     /\ TagsOn(T_Turnover, D1) # {}
     /\ TagsOn(T_NetAssets, I1) # {}) =>
        /\ Len(x_out) = 1
        /\ x_out[1].period_end = x_doc.ctxs[1].end
        /\ x_out[1].year = <<"2", "0", "2", "3">>
        /\ x_out[1].v["turnover"] = Expected(x_doc.tags[Least(TagsOn(T_Turnover, D1))])
        /\ x_out[1].v["net_assets"] = Expected(x_doc.tags[Least(TagsOn(T_NetAssets, I1))])

\* the scenario itself: turnover "1,234" in thousands on the duration
\* context, net assets "(500)" on the instant context of its end date
C10_Witness ==
    /\ x_pc = "done"
    /\ x_doc.ctxs[2].instant = YearEnd
    /\ x_doc.tags = <<Tag(T_Turnover, D1, Text_1234, <<"3">>),
                      Tag(T_NetAssets, I1, Text_500, Missing)>>
    /\ Len(x_out) = 1
    /\ x_out[1].period_end = YearEnd
    /\ x_out[1].v["turnover"] = Num(1234000)
    /\ x_out[1].v["net_assets"] = Num(-500)

(***************************************************************************)
(* Properties of the /api/company handler (checked under SpecServer).      *)
(***************************************************************************)
\* a response that carries a series assembled from parsed filings
Assembled ==
    /\ response.status = 200 /\ response.body \in {"data", "cached"}
    /\ Financials(ch.filings) # <<>>

\* the records parsed from the filings for a year, and the fullest of them
OfYear(rs, yr) == {i \in 1..Len(rs) : rs[i].year = yr}

Fullest(rs, yr) ==
    {i \in OfYear(rs, yr) : \A j \in OfYear(rs, yr) : NonNullCount(rs[i]) >= NonNullCount(rs[j])}

\* C7: a series the /api/company handler assembled from parsed filings
\* holds, for every year of the parsed records, a record with the greatest
\* count of non-null values among the parsed records of that year, whatever
\* the order of the filings.
C7_ServerKeepsFullest ==
    Assembled =>
        LET parsed == Financials(ch.filings)
            series == response.data.financials
        IN  \A yr \in {parsed[i].year : i \in 1..Len(parsed)} :
                \E i \in Fullest(parsed, yr), k \in 1..Len(series) :
                    series[k] = FrontRecord(parsed[i])

(***************************************************************************)
(* Properties of context resolution (checked under SpecRefs).              *)
(***************************************************************************)
\* a context reference that resolves: a parsed context, with an end or an
\* instant date, without a dimension
Usable(ref) ==
    /\ ref \in DOMAIN x_contexts
    /\ ~x_contexts[ref].has_dimension
    /\ (x_contexts[ref].end # Missing \/ x_contexts[ref].instant # Missing)

RECURSIVE UsableFacts(_)
UsableFacts(facts) ==
    IF facts = <<>> THEN <<>>
    ELSE (IF Usable(Head(facts).context_ref) THEN <<Head(facts)>> ELSE <<>>)
         \o UsableFacts(Tail(facts))

\* C11: the list extract_financials_from_ixbrl returns is the list it would
\* return for the same contexts and only the facts whose contextRef names a
\* parsed, dated, undimensioned context: no value comes from any other
\* fact, and the other facts are extracted as if the skipped ones were not
\* there.
C11_UnresolvedSkipped ==
    x_pc = "done" => x_out = ExtractParsed(x_contexts, UsableFacts(x_facts))

\* net assets tagged on the dimensioned context (7), on an unknown context
\* (9) and on the instant context (5): the record holds the 5
C11_Witness ==
    /\ x_pc = "done"
    /\ x_doc.tags = <<Tag(T_NetAssets, S1, RefText(S1), Missing),
                      Tag(T_NetAssets, Z1, RefText(Z1), Missing),
                      Tag(T_NetAssets, I1, RefText(I1), Missing)>>
    /\ Len(x_out) = 1
    /\ x_out[1].v["net_assets"] = Num(5)

(***************************************************************************)
(* Properties of concept matching (checked under SpecNames).               *)
(***************************************************************************)
\* the fact that supplies a field of the period key: the first qualifying
\* fact, as an index of x_facts, 0 for none
Supplier(key, field) ==
    LET any  == DurationCtx(x_contexts, key) \cup InstantCtx(x_contexts, key)
        own  == IF field \in DurationFields THEN DurationCtx(x_contexts, key)
                ELSE InstantCtx(x_contexts, key)
        qown == Qualifying(own, field)
        qany == Qualifying(any, field)
    IN  IF qown # {} THEN Least(qown) ELSE IF qany # {} THEN Least(qany) ELSE 0

AliasPair == {"current_liabilities", "creditors_due_within_year"}

\* C12: in a record extract_financials_from_ixbrl returns, no fact supplies
\* two different canonical fields, the pair current_liabilities and
\* creditors_due_within_year apart.
C12_OneFieldPerFact ==
    x_pc = "done" =>
        \A i \in 1..Len(x_out) :
            \A f, g \in FieldSet :
                (/\ f # g
                 /\ {f, g} # AliasPair
                 /\ Supplier(x_out[i].period_end, f) # 0) =>
                    Supplier(x_out[i].period_end, f) # Supplier(x_out[i].period_end, g)


(***************************************************************************)
(* C13.  extract_company_number applies its rules in order and returns the *)
(* first success: a token of 8 digits between underscores in the file      *)
(* name, any run of 8 digits in the file name, a CompanyNumber field in    *)
(* the content head, a RegisteredNumber field, an identifier tag.  A match *)
(* in the file name wins over anything in the document, and every result   *)
(* is 8 digit characters, padded with zeros on the left.                   *)
(***************************************************************************)
FileName(path) ==
    IF \E i \in 1..Len(path) : path[i] = "/"
    THEN LET cut == Least({i \in 1..Len(path) :
                             \A j \in i..Len(path) : path[j] # "/"})
         IN  [i \in 1..(Len(path) - cut + 1) |-> path[cut + i - 1]]
    ELSE path

\* the k characters of s from the least of the starts, <<>> if there is none
Windows(s, k, starts) ==
    IF starts = {} THEN <<>>
    ELSE [i \in 1..k |-> s[Least(starts) + i - 1]]

Token(name) ==
    Windows(name, 8,
            {i \in 2..(Len(name) - 8) :
                /\ name[i - 1] = "_" /\ name[i + 8] = "_"
                /\ \A j \in i..(i + 7) : name[j] \in Digits})

Run(name) ==
    Windows(name, 8,
            {i \in 1..(Len(name) - 7) : \A j \in i..(i + 7) : name[j] \in Digits})

Padded(digits) ==
    LET d == IF Len(digits) > 8 THEN SubSeq(digits, 1, 8) ELSE digits
    IN  [i \in 1..8 |-> IF i <= 8 - Len(d) THEN "0" ELSE d[i - (8 - Len(d))]]

Separated(place) ==
    /\ Len(place.sep) >= 1
    /\ \A i \in 1..Len(place.sep) : place.sep[i] \in {">", " ", ":"}
    /\ Len(place.digits) >= 6

FieldPlaces(head, field) ==
    {i \in 1..Len(head) :
        /\ Separated(head[i])
        /\ Len(head[i].label) >= 2
        /\ LowerStr(SubSeq(head[i].label, Len(head[i].label) - 1, Len(head[i].label)))
              = field}

TagPlaces(head) ==
    {i \in 1..Len(head) :
        /\ "identifier" \in {LowerWord(w) : w \in Range(head[i].label)}
        /\ head[i].sep = <<">">> /\ head[i].next = "<"
        /\ Len(head[i].digits) \in 6..8}

FromHead(head) ==
    LET c == FieldPlaces(head, "companynumber")
        r == FieldPlaces(head, "registerednumber")
        t == TagPlaces(head)
    IN  IF c # {} THEN Padded(head[Least(c)].digits)
        ELSE IF r # {} THEN Padded(head[Least(r)].digits)
        ELSE IF t # {} THEN Padded(head[Least(t)].digits)
        ELSE <<>>

CompanyNumberOf(file) ==
    LET name == FileName(file.path)
    IN  IF Token(name) # <<>> THEN Token(name)
        ELSE IF Run(name) # <<>> THEN Run(name)
        ELSE FromHead(file.head)

C13_CompanyNumberRules ==
    b_pc \in {"tags", "done"} =>
        /\ b_company = CompanyNumberOf(x_doc.file)
        /\ b_company # <<>> => Len(b_company) = 8 /\ Range(b_company) \subseteq Digits
        /\ b_pc = "done" =>
              \A i \in 1..Len(b_out) : b_out[i].company_number = b_company
        /\ x_doc.file.path = Path_Prod224 =>
              b_company = <<"0", "0", "0", "1", "2", "3", "4", "5">>

\* the file name has no run of 8 digits, the head holds a CompanyNumber
\* field of 6 digits after an identifier tag, and the records carry the
\* padded number
C13_Witness ==
    /\ b_pc = "done"
    /\ x_doc.file.path = Path_DatedDir
    /\ Len(x_doc.file.head) = 2
    /\ x_doc.file.head[1].label = <<"identifier">>
    /\ x_doc.file.head[1].next = "<" /\ Len(x_doc.file.head[1].digits) = 8
    /\ x_doc.file.head[2].digits = <<"1", "2", "3", "4", "5", "6">>
    /\ b_company = <<"0", "0", "1", "2", "3", "4", "5", "6">>
    /\ Len(b_out) = 1


(***************************************************************************)
(* C14.  In bulk mode a document for which no identifier rule succeeds, or *)
(* whose parsing fails with an exception, contributes zero records;        *)
(* parse_ixbrl_fast and process_batch return normally, and the records of  *)
(* the other documents of the batch are what they are without it.          *)
(***************************************************************************)
Unidentifiable(doc) == CompanyNumberOf(doc.file) = <<>>

Unparsable(doc) ==
    /\ ~Unidentifiable(doc)
    /\ \E i \in 1..Len(doc.tags) :
          /\ doc.tags[i].ctx \in {doc.ctxs[k].id : k \in 1..Len(doc.ctxs)}
          /\ BulkField(doc.tags[i]) # ""
          /\ BulkValue(doc.tags[i]) = Raised

Failed(doc) == Unidentifiable(doc) \/ Unparsable(doc)

RECURSIVE Sound(_)
Sound(files) ==
    IF files = <<>> THEN <<>>
    ELSE (IF Failed(Head(files)) THEN <<>> ELSE <<Head(files)>>) \o Sound(Tail(files))

IsRow(r) ==
    /\ DOMAIN r = {"company_number", "period_end", "v"}
    /\ Len(r.company_number) = 8

C14_BadDocumentsSkipped ==
    \A k \in 1..Len(a_queue) :
        LET batch == a_batches[a_queue[k].batch]
            rows  == a_queue[k].rows
        IN  /\ \A i \in 1..Len(rows) : IsRow(rows[i])
            /\ rows = process_batch(Sound(batch))
            /\ {rows[i].company_number : i \in 1..Len(rows)}
                  = {CompanyNumberOf(batch[i].file) :
                        i \in {j \in 1..Len(batch) : ~Failed(batch[j])}}
            /\ \A i \in 1..Len(batch) :
                  Failed(batch[i]) => parse_ixbrl_fast(batch[i]) = <<>>

\* a worker has finished the batch of the file whose scale overflows and
\* the file with its number in the head: one record, of the second file
C14_Witness ==
    \E k \in 1..Len(a_queue) :
        /\ a_batches[a_queue[k].batch] = <<File_Overflow, File_Headed>>
        /\ Len(a_queue[k].rows) = 1
        /\ a_queue[k].rows[1].company_number = <<"0", "0", "1", "2", "3", "4", "5", "6">>
        /\ a_queue[k].rows[1].v["total_assets"] = Num(7)

(***************************************************************************)
(* C15.  After parse_all_accounts has processed N documents of which M are *)
(* unparsable or unidentifiable, it holds the records of the other N - M   *)
(* documents and a count of failures equal to M.                           *)
(***************************************************************************)
C15_FailuresCounted ==
    (a_pc = "done" /\ a_files # <<>>) =>
        /\ Len(a_rows) = Len(process_batch(Sound(a_files)))
        /\ \A i \in 1..Len(a_files) :
              ~Failed(a_files[i]) =>
                  Range(parse_ixbrl_fast(a_files[i])) \subseteq Range(a_rows)
        /\ a_failed_count = Cardinality({i \in 1..Len(a_files) : Failed(a_files[i])})


(***************************************************************************)
(* C16.  For every text, scale string and sign marker each numeric decoder *)
(* returns a number or no value and never raises: no value when the        *)
(* cleaned string is empty, a bare ".", a bare "-" or not a number, and    *)
(* the parsed value unscaled when the scale attribute is not an integer.   *)
(***************************************************************************)
NoFigure(text) ==
    \/ CleanedText(text) \in {<<>>, <<".">>, <<"-">>}
    \/ ~FloatOk(CleanedText(text))

SameMagnitude(a, b) == a.kind = "num" /\ b.kind = "num" /\ Abs(a.n) = Abs(b.n) /\ a.d = b.d

Decoded(out) ==
    out # Pending =>
        /\ out # Raised
        /\ NoFigure(d_text) => out = None
        /\ ~NoFigure(d_text) => out.kind = "num"
        /\ (~NoFigure(d_text) /\ ~IntOk(d_scale)) =>
              SameMagnitude(out, Float(CleanedText(d_text)))

C16_DecoderNeverRaises == Decoded(d_single) /\ Decoded(d_bulk)


(***************************************************************************)
(* C17.  parse_ixbrl given a byte sequence and a declared encoding never   *)
(* raises during decoding: whenever decoding under the declared encoding   *)
(* fails, for any reason, it falls back to latin-1, which maps every byte  *)
(* to the character of the same number.                                    *)
(***************************************************************************)
Fails(content, encoding) == Decode(content, encoding).kind = "raise"

C17_DecodingNeverRaises ==
    e_out # Pending =>
        /\ e_out.kind = "text"
        /\ Fails(e_content, e_encoding) => e_out.chars = e_content
        /\ ~Fails(e_content, e_encoding) => e_out = Decode(e_content, e_encoding)


(***************************************************************************)
(* C18.  calc_credit_limit returns a limit of 0 whenever the score is very *)
(* low (below 20) or the company has insolvency history: an active case or *)
(* any past insolvency case.                                               *)
(***************************************************************************)
VeryLow(score) == score.n < 20 * 10^score.d

ActiveCase(insolvency) == insolvency.has_active_case = "True"

PastCases(insolvency) == insolvency.cases # Missing /\ Len(insolvency.cases) > 0

C18_NoLimitForRiskyCompany ==
    (/\ l_out # Pending
     /\ (VeryLow(l_score) \/ ActiveCase(l_insolvency) \/ PastCases(l_insolvency)))
        => l_out.limit = 0


(***************************************************************************)
(* C19.  In the single-document extractor and in the bulk parser alike, a  *)
(* tag's local name (what follows the last namespace separator) maps to a  *)
(* field exactly when, case-insensitively, it equals one of the field's    *)
(* recognized suffixes or ends with one; a local name that matches no      *)
(* field is dropped.                                                       *)
(***************************************************************************)
EndsWithWords(local, suffix) ==
    /\ Len(suffix) <= Len(local)
    /\ LowerStr(SubSeq(local, Len(local) - Len(suffix) + 1, Len(local))) = LowerStr(suffix)

Recognized(local, suffixes) ==
    \E k \in 1..Len(suffixes) : EndsWithWords(local, suffixes[k])

BulkSuffixes(field) ==
    BULK_CONCEPT_MAP[CHOOSE i \in 1..Len(BULK_CONCEPT_MAP) : BULK_CONCEPT_MAP[i][1] = field][2]

TagLocalName == LocalName(x_doc.tags[1].name)

\* the fields the single-document extractor selected a value for
SingleMapped == {f \in FieldSet : x_record.v[f] # None}

\* the fields the bulk parser stored a value under
BulkMapped == {f \in BulkFieldSet : \E i \in 1..Len(b_by_period) : b_by_period[i].v[f] # None}

C19_SuffixMatching ==
    /\ x_pc = "liabilities" =>
          SingleMapped = {f \in FieldSet : Recognized(TagLocalName, CONCEPT_MAP(f))}
    /\ b_pc = "done" =>
          /\ \A f \in BulkMapped : Recognized(TagLocalName, BulkSuffixes(f))
          /\ (\E f \in BulkFieldSet : Recognized(TagLocalName, BulkSuffixes(f)))
                => BulkMapped # {}


(***************************************************************************)
(* C20.  The context map parse_ixbrl returns holds an entry for a context  *)
(* block only if the block has an identifier and its period has both a     *)
(* start and an end marker (a duration {start, end}, also when there is an *)
(* instant marker too) or an instant marker (an instant {instant}); a      *)
(* block whose period has neither is discarded and does not appear.        *)
(***************************************************************************)
IsDuration(block) == block.start # Missing /\ block.end # Missing

IsInstant(block) == ~IsDuration(block) /\ block.instant # Missing

Classified(block) ==
    /\ block.id # <<>>
    /\ block.period
    /\ (IsDuration(block) \/ IsInstant(block))

\* the last classified block of the document with the identifier
LastClassified(blocks, id) ==
    blocks[CHOOSE i \in 1..Len(blocks) :
              /\ blocks[i].id = id /\ Classified(blocks[i])
              /\ \A j \in (i + 1)..Len(blocks) :
                    ~(blocks[j].id = id /\ Classified(blocks[j]))]

C20_UnclassifiedDiscarded ==
    x_pc \notin {"idle", "call", "raised"} =>
        /\ DOMAIN x_contexts
              = {x_doc.ctxs[i].id : i \in {j \in 1..Len(x_doc.ctxs) : Classified(x_doc.ctxs[j])}}
        /\ \A id \in DOMAIN x_contexts :
              LET block == LastClassified(x_doc.ctxs, id)
                  info  == x_contexts[id]
              IN  IF IsDuration(block)
                  THEN /\ info.start = block.start /\ info.end = block.end
                       /\ info.instant = Missing
                  ELSE /\ info.instant = block.instant
                       /\ info.start = Missing /\ info.end = Missing


(***************************************************************************)
(* C21.  For a duration-preferring field (turnover, cost_of_sales,         *)
(* gross_profit, ebit, net_profit, employees) the selected value is that   *)
(* of the first fact in document order that matches the field and sits on  *)
(* a duration context of the period, even when a matching fact on an       *)
(* instant context of the period comes earlier; only when there is no such *)
(* fact is the first matching fact on any context of the period taken.     *)
(* Every other field prefers instant contexts in the same way.             *)
(***************************************************************************)
PrefersDuration ==
    {"turnover", "cost_of_sales", "gross_profit", "ebit", "net_profit", "employees"}

\* the facts of the period that match the field, by the kind of their context
OnKind(key, field, kind) ==
    {i \in 1..Len(x_facts) :
        LET c == x_facts[i].context_ref
        IN  /\ c \in DOMAIN x_contexts
            /\ ~x_contexts[c].has_dimension
            /\ _match_concept(x_facts[i].concept, field)
            /\ IF kind = "duration"
               THEN x_contexts[c].start # Missing /\ x_contexts[c].end = key
               ELSE x_contexts[c].instant = key}

Preferred(r, field) ==
    LET mine  == OnKind(r.period_end, field,
                        IF field \in PrefersDuration THEN "duration" ELSE "instant")
        other == OnKind(r.period_end, field,
                        IF field \in PrefersDuration THEN "instant" ELSE "duration")
    IN  IF mine # {} THEN r.v[field] = x_facts[Least(mine)].value
        ELSE IF other # {} THEN r.v[field] = x_facts[Least(other)].value
        ELSE field \in PrefersDuration => r.v[field] = None

C21_AffinityPreferred ==
    /\ Building => \A f \in FieldSet : Preferred(x_record, f)
    /\ \A i \in 1..Len(x_out) : \A f \in FieldSet : Preferred(x_out[i], f)

\* turnover is tagged first on the instant context (1,234 thousand) and then
\* on the duration context ((500)): the record returned holds -500
C21_Witness ==
    /\ x_pc = "done"
    /\ x_doc.tags = <<Tag(T_Turnover, I1, Text_1234, <<"3">>),
                      Tag(T_Turnover, D1, Text_500, Missing)>>
    /\ x_doc.ctxs[2].instant = YearEnd
    /\ Len(x_out) = 1
    /\ x_out[1].v["turnover"] = Num(-500)


(***************************************************************************)
(* C30.  The two numeric decoders agree: for every text, scale string and  *)
(* sign marker, accounts_parser._parse_value and                           *)
(* parse_accounts_bulk.parse_value end in the same way, with the same      *)
(* number or both with no value.                                           *)
(***************************************************************************)
C30_DecodersAgree ==
    (d_single # Pending /\ d_bulk # Pending) => d_single = d_bulk

\* both decoders have read "(5)" in thousands: -5000 from each
C30_Witness ==
    /\ d_text = <<"(", "5", ")">>
    /\ d_scale = <<"3">>
    /\ d_sign = ""
    /\ d_single = Num(-5000)
    /\ d_bulk = Num(-5000)


(***************************************************************************)
(* C26.  In the bulk parser a period is kept whenever its record holds     *)
(* company_number, period_end and at least one financial field; only       *)
(* periods with no financial field at all are filtered out.                *)
(***************************************************************************)
FinancialFields(r) == {f \in BulkFieldSet : r.v[f] # None}

Kept(r) == \E j \in 1..Len(b_out) : b_out[j] = r

C26_OneFieldKept ==
    b_pc = "done" =>
        \A i \in 1..Len(b_by_period) :
            Kept(b_by_period[i]) <=> FinancialFields(b_by_period[i]) # {}


(***************************************************************************)
(* C27.  In every record extract_financials_from_ixbrl builds and returns, *)
(* creditors_due_within_year and current_liabilities hold the same value:  *)
(* both null or both the same number, whatever the names, the contexts and *)
(* the order of the facts.                                                 *)
(***************************************************************************)
SameCreditors(r) == r.v["creditors_due_within_year"] = r.v["current_liabilities"]

C27_CreditorsEqualCurrentLiabilities ==
    /\ \A i \in 1..Len(x_results) : SameCreditors(x_results[i])
    /\ \A i \in 1..Len(x_out) : SameCreditors(x_out[i])

\* current liabilities of (500) on the duration context come first, creditor
\* amounts of 1,234 thousand on the instant context second: both fields
\* take the instant figure
C27_Witness ==
    /\ x_pc = "done"
    /\ x_doc.tags = <<Tag(T_Liabilities, D1, Text_500, Missing),
                      Tag(T_CreditorAmounts, I1, Text_1234, <<"3">>),
                      Tag(T_NetAssets, I1, Text_500, Missing)>>
    /\ Len(x_out) = 1
    /\ x_out[1].v["current_liabilities"] = Num(1234000)
    /\ x_out[1].v["creditors_due_within_year"] = Num(1234000)


(***************************************************************************)
(* C28.  The minimum-presence check of extract_financials_from_ixbrl is    *)
(* evaluated after the derivation rules: the record it looks at is the     *)
(* derived one, and a period whose only tagged value is a non-zero         *)
(* fixed_assets is retained, with total_assets derived from it.            *)
(***************************************************************************)
OnlyFixedAssets ==
    /\ Len(x_facts) = 1
    /\ _match_concept(x_facts[1].concept, "fixed_assets")
    /\ \A f \in FieldSet \ {"fixed_assets"} : ~_match_concept(x_facts[1].concept, f)
    /\ Truthy(x_facts[1].value)

C28_PresenceAfterDerivation ==
    /\ x_pc = "retain" => x_record = BuildRecord(x_contexts, x_facts, Head(x_todo))
    /\ (x_pc = "done" /\ OnlyFixedAssets) =>
           /\ Len(x_out) = 1
           /\ x_out[1].v["fixed_assets"] = x_facts[1].value
           /\ x_out[1].v["total_assets"] = x_facts[1].value

\* fixed assets of 120,000 alone: the period is returned with total assets
\* of 120,000
C28_Witness ==
    /\ x_pc = "done"
    /\ x_doc.tags = <<Tag(T_FixedAssets, I1, Text_120000, Missing)>>
    /\ OnlyFixedAssets
    /\ Len(x_out) = 1
    /\ x_out[1].v["total_assets"] = Num(120000)
    /\ x_out[1].v["net_assets"] = None


(***************************************************************************)
(* C29.  Across any sequence and interleaving of /api/company and          *)
(* /api/cache/clear requests the company cache holds only results of       *)
(* successful lookups: a request that ends in "not found" or in an         *)
(* exception leaves the cache unchanged, a request for a number found in   *)
(* the cache returns the cached entry without fetching or parsing again,   *)
(* and only a successful uncached request or clear_cache changes the       *)
(* cache.                                                                  *)
(***************************************************************************)
SuccessfulLookups ==
    \A e \in _company_cache : e.number = ch.number /\ e.data = CompanyData(ch)

Ends(t) == r_pc[t] # "idle" /\ r_pc'[t] = "idle"

FailureKeepsCache ==
    \A t \in Threads :
        (Ends(t) /\ r_response'[t].status # 200) => _company_cache' = _company_cache

CachedIsReturned ==
    \A t \in Threads :
        (r_pc[t] = "hit" /\ Ends(t)) =>
            /\ r_response'[t].status = 200
            /\ [number |-> r_number[t], data |-> r_response'[t].data] \in _company_cache
            /\ _company_cache' = _company_cache

OnlySuccessOrClear ==
    _company_cache' # _company_cache =>
        \/ _company_cache' = {} /\ response'.body = "cleared"
        \/ \E t \in Threads :
               /\ r_pc[t] = "store" /\ Ends(t)
               /\ r_response'[t].status = 200
               /\ _company_cache' = CacheSet(_company_cache, r_number[t],
                                             r_response'[t].data)

C29_CacheHoldsSuccesses ==
    /\ []SuccessfulLookups
    /\ [][FailureKeepsCache /\ CachedIsReturned /\ OnlySuccessOrClear]_vars


(***************************************************************************)
(* C22.  _pct_change(new, old) returns (new - old) / |old| when old is     *)
(* non-zero; when old is exactly zero it returns +1 if new > 0, -1 if      *)
(* new < 0 and 0 otherwise; it returns no value when either argument is    *)
(* missing, and never divides by zero.                                     *)
(***************************************************************************)
C22_PctChange ==
    p_out # Pending =>
        /\ p_out # Raised
        /\ (p_new = None \/ p_old = None) => p_out = None
        /\ (p_new # None /\ p_old # None /\ p_old.n = 0) =>
               /\ p_new.n > 0 => p_out = Frac(1, 1)
               /\ p_new.n < 0 => p_out = Frac(-1, 1)
               /\ p_new.n = 0 => p_out = Frac(0, 1)
        /\ (p_new # None /\ p_old # None /\ p_old.n # 0) =>
               /\ p_out.kind = "frac"
               /\ p_out.d > 0
               /\ p_out.n * Abs(p_old.n) = (p_new.n - p_old.n) * p_out.d

\* from -3 to 1: a rise of four thirds
C22_Witness ==
    /\ p_new = Num(1)
    /\ p_old = Num(-3)
    /\ p_out = Frac(4, 3)


(***************************************************************************)
(* C23.  The acceleration flag of net assets, na_accelerating, is true     *)
(* exactly when the latest year-on-year change has the same sign as the    *)
(* prior change and a strictly larger magnitude.                           *)
(***************************************************************************)
Changes == Diff(DropNa(f_vals))

Accelerating(latest, prior) ==
    Sign(latest) = Sign(prior) /\ Abs(latest) > Abs(prior)

C23_Acceleration ==
    (f_row # Pending /\ f_row.na_accelerating # None) =>
        (f_row.na_accelerating = Num(1)
            <=> Accelerating(Changes[Len(Changes)], Changes[Len(Changes) - 1]))

(***************************************************************************)
(* C24.  na_years_declining is the number of consecutive year-on-year      *)
(* changes of net assets, counted backward from the most recent one, that  *)
(* are strictly negative, stopping at the first that is not; it lies       *)
(* between 0 and the number of changes, and it is at least 1 exactly when  *)
(* na_declining is 1.                                                      *)
(***************************************************************************)
\* the last k changes are all negative and the one before them, if any, is not
DeclineRun(changes, k) ==
    /\ k \in 0..Len(changes)
    /\ \A i \in (Len(changes) - k + 1)..Len(changes) : changes[i] < 0
    /\ k < Len(changes) => changes[Len(changes) - k] >= 0

C24_YearsDeclining ==
    (f_row # Pending /\ f_row.na_years_declining # None) =>
        /\ DeclineRun(Changes, f_row.na_years_declining.n)
        /\ f_row.na_years_declining.n >= 1 <=> f_row.na_declining = Num(1)
        /\ f_row.na_declining \in {Num(0), Num(1)}

\* 150, 300, 0, -200: a rise, then two years of decline
C24_Witness ==
    /\ f_vals = <<Num(150), Num(300), Num(0), Num(-200)>>
    /\ f_row # Pending
    /\ f_row.na_years_declining = Num(2)
    /\ f_row.na_declining = Num(1)


(***************************************************************************)
(* C25.  For every order in which the worker batches of parse_all_accounts *)
(* complete, no row returned by a worker is lost or duplicated by the      *)
(* accumulation, and the deduplicated dataset holds, for each pair of      *)
(* company_number and year in 2000..2026 present in any batch result,      *)
(* exactly one row, whose count of non-null values is maximal among the    *)
(* pair's candidate rows.                                                  *)
(***************************************************************************)
Occurrences(r, rows) == Cardinality({i \in 1..Len(rows) : rows[i] = r})

RECURSIVE SumOver(_, _, _)
SumOver(r, S, rowsOf) ==
    IF S = {} THEN 0
    ELSE LET i == CHOOSE j \in S : TRUE
         IN  Occurrences(r, rowsOf[i]) + SumOver(r, S \ {i}, rowsOf)

\* what each batch returns
BatchRows == [i \in 1..Len(a_batches) |-> process_batch(a_batches[i])]

RowsOf(results) == UNION {Range(results[i]) : i \in DOMAIN results}

\* every row a worker returns is, as often as it was returned, in all_rows,
\* in the queue or still to come
NothingLostOrDuplicated ==
    LET results == BatchRows
        queued  == [k \in 1..Len(a_queue) |-> a_queue[k].rows]
    IN  /\ Range(a_rows) \subseteq RowsOf(results)
        /\ \A r \in RowsOf(results) :
              Occurrences(r, a_rows) + SumOver(r, DOMAIN queued, queued)
                  + SumOver(r, a_pending, results)
                = SumOver(r, DOMAIN results, results)

InRange(r) == ToYear(r.period_end) >= YearMin /\ ToYear(r.period_end) <= YearMax

NonNull(r) == Cardinality({f \in BulkFieldSet : r.v[f] # None})

OneFullestRowPerPair ==
    LET rows == RowsOf(BatchRows)
    IN  /\ \A r \in rows :
              InRange(r) =>
                  Cardinality({i \in 1..Len(a_out) :
                                  /\ a_out[i].company_number = r.company_number
                                  /\ a_out[i].year = ToYear(r.period_end)}) = 1
        /\ \A i \in 1..Len(a_out) :
              LET cands == {r \in rows : /\ r.company_number = a_out[i].company_number
                                         /\ ToYear(r.period_end) = a_out[i].year}
              IN  /\ a_out[i].year >= YearMin /\ a_out[i].year <= YearMax
                  /\ \E r \in cands : r.period_end = a_out[i].period_end /\ r.v = a_out[i].v
                  /\ \A r \in cands : NonNull(r) <= NonNull(a_out[i])

C25_UnorderedAccumulation ==
    /\ a_pc \in {"pool", "done"} => NothingLostOrDuplicated
    /\ (a_pc = "done" /\ a_rows # <<>>) => OneFullestRowPerPair

\* the second batch was finished first; company 00012345 has three rows of
\* 2023 and one of 1999, and the dataset keeps the one with three figures
C25_Witness ==
    /\ a_pc = "done"
    /\ a_files = <<File_Named, File_Old, File_HalfYear, File_Fuller>>
    /\ Len(a_rows) = 4
    /\ a_rows[1].period_end = DateStr(2023, 6, 30)
    /\ Len(a_out) = 1
    /\ a_out[1].year = 2023
    /\ a_out[1].v["net_assets"] = Num(-500)

=============================================================================
